---- MODULE Spec2Model ----
(***************************************************************************)
(* Model of the selection-and-extraction pipeline of LLPStandardPlots      *)
(* (src/src/loader.py, src/src/config.py, src/src/selections.py).          *)
(*                                                                         *)
(* Numbers.  The code works on floats; the model keeps integers.  Variable *)
(* values are stored in thousandths (the scale 0.001 of rjr_Ms becomes a   *)
(* factor 1, the scale 1.0 of every other variable a factor 1000).         *)
(* Weights are integers (1.0 is 1).                                        *)
(*                                                                         *)
(* Strings.  Column names are atomic strings.  Dictionary keys that the    *)
(* code builds or inspects by their text (var + '_weights', endswith) are  *)
(* token sequences: <<"rjr_Ms">>, <<"rjr_Ms", "_weights">>, <<"weights">>. *)
(* Cut expressions are sequences of one-character strings, so that the     *)
(* regular expression and the split of the parser work on characters.      *)
(***************************************************************************)
EXTENDS Integers, Sequences, FiniteSets, TLC

VARIABLES
    mode,           \* which specification is running (fixed by its Init)
    pc,             \* position of the running call
    data,           \* arrays of the file being processed: [cols, rows, nonnumeric]
    mask,           \* the boolean mask being built / handed to _extract_values
    is_data,        \* is_data argument
    extracted,      \* value returned (or exception raised) by _extract_values
    file_data,      \* value returned by _process_extracted_data
    applied,        \* baseline conditions applied so far (mask specification)
    cut_expr,       \* structured cut expression the cut string was rendered from
    cut_string,     \* the cut string handed to _parse_simple_cut
    bindings,       \* the `variables` dictionary handed to _parse_simple_cut
    parsed,         \* value returned (or exception raised) by _parse_simple_cut
    file_paths,     \* file_paths argument of the load call
    event_flags,    \* event_flags / final_state_flags argument
    custom_cuts,    \* custom_cuts argument
    entry,          \* the entry point called: "load_data_unified" or "load_data"
    fidx,           \* position of `for file_path in file_paths` (1-based)
    ridx,           \* position of the running region loop (1-based)
    open_files,     \* file handles currently open
    event_data,     \* event_data: flag -> file path -> ObservationSet
    custom_data,    \* custom_data: <<"CustomRegion", i>> -> file path -> ObservationSet
    args,           \* main: the parsed command line [flags, data, ratio, unblind]
    loaded,         \* main: the six maps returned by the three load_data_unified calls
    all_flags_and_cuts, \* main: the list of regions handed to the plotting code
    item_idx,       \* main: position of `for item in all_flags_and_cuts` (1-based)
    plotted,        \* main: what each processed item was plotted with
    combine_fn,     \* which pooling function is called
    data_dict,      \* its argument: the per-file observation sets, in insertion order
    combined,       \* the value it returned
    loader,         \* the DataLoader object: [constructed, flags, loading_summary]
    calls,          \* the load calls made on it so far, with their arguments
    final_state,    \* format_sv_label: the flag name handed to it
    label,          \* format_sv_label: the label returned
    stdin,          \* prompt: standard input [isatty, keys, pending, eof]
    selected,       \* prompt: index of the highlighted option (0 Continue, 1 Abort)
    prompt_result,  \* prompt: how prompt_unblind_warning ended
    eps_files,      \* eps_to_pdf: the .eps files found by the scan
    epstopdf,       \* eps_to_pdf: can the epstopdf program be started
    num_workers,    \* eps_to_pdf: number of worker processes of the pool
    task,           \* eps_to_pdf: state of the pool task of each file
    worker_calls,   \* eps_to_pdf: convert_single_file calls made for each file
    results,        \* eps_to_pdf: results the pool holds for the loop, in completion order
    success_count,  \* eps_to_pdf: success_count of main
    fail_list       \* eps_to_pdf: fail_list of main

vars == <<mode, pc, data, mask, is_data, extracted, file_data, applied,
          cut_expr, cut_string, bindings, parsed,
          file_paths, event_flags, custom_cuts, entry, fidx, ridx, open_files,
          event_data, custom_data,
          args, loaded, all_flags_and_cuts, item_idx, plotted,
          combine_fn, data_dict, combined,
          loader, calls,
          final_state, label,
          stdin, selected, prompt_result,
          eps_files, epstopdf, num_workers, task, worker_calls, results, success_count, fail_list>>

----------------------------------------------------------------------------
(* AnalysisConfig *)

MET_CUT == 150
RJR_PTS_CUT == 150
EVT_WGT_CUT == 10

\* Keys of AnalysisConfig.VARIABLES in dictionary (insertion) order.
VariableKeys ==
    << "rjr_Ms", "rjr_Rs",
       "HadronicSV_mass", "HadronicSV_dxy", "HadronicSV_dxySig", "HadronicSV_pOverE",
       "HadronicSV_decayAngle", "HadronicSV_cosTheta", "HadronicSV_nTracks",
       "LeptonicSV_mass", "LeptonicSV_dxy", "LeptonicSV_dxySig", "LeptonicSV_pOverE",
       "LeptonicSV_decayAngle", "LeptonicSV_cosTheta",
       "selCMet", "selPhoEta", "selPhoWTime", "selPho_beamHaloCNNScore" >>

\* var_config['scale'] in thousandths.
ScaleMilli(var_key) == IF var_key = "rjr_Ms" THEN 1 ELSE 1000

\* var_config['is_vector']
IsVector(var_key) == var_key # "selCMet"

\* var_key.startswith('HadronicSV_') or .startswith('LeptonicSV_') or .startswith('selPho')
IsPerObject(var_key) ==
    var_key \in { "HadronicSV_mass", "HadronicSV_dxy", "HadronicSV_dxySig",
                  "HadronicSV_pOverE", "HadronicSV_decayAngle", "HadronicSV_cosTheta",
                  "HadronicSV_nTracks",
                  "LeptonicSV_mass", "LeptonicSV_dxy", "LeptonicSV_dxySig",
                  "LeptonicSV_pOverE", "LeptonicSV_decayAngle", "LeptonicSV_cosTheta",
                  "selPhoEta", "selPhoWTime", "selPho_beamHaloCNNScore" }

\* self.luminosity (the constructor's default)
Luminosity == 400

----------------------------------------------------------------------------
(* Dictionaries keyed by token sequences *)

VarKey(var_key) == <<var_key>>
WeightsKey(var_key) == <<var_key, "_weights">>
DefaultWeightsKey == <<"weights">>

\* key.endswith('_weights')
EndsWithWeights(key) == key[Len(key)] = "_weights"

EmptyDict == [k \in {} |-> <<>>]

\* A local variable: the value v is computed once and F is evaluated with it.
Bind(v, F(_)) == CHOOSE y \in { F(x) : x \in {v} } : TRUE

\* d[k] = v
DictPut(d, k, v) == (k :> v) @@ d

\* d[k].append(v)
DictAppend(d, k, v) == [d EXCEPT ![k] = Append(@, v)]

----------------------------------------------------------------------------
(* DataLoader._extract_values and DataLoader._process_extracted_data        *)
(*                                                                          *)
(* data is the dictionary returned by tree.arrays: data.cols are its keys,  *)
(* data.rows[i][c] is data[c][i - 1].  data.nonnumeric are the per-object    *)
(* columns whose elements do not support `* scale` (a branch that is not    *)
(* numeric): scaling such an element raises TypeError.  Indexing a column   *)
(* that is not a key raises KeyError.                                       *)

Call(raised, value) == [raised |-> raised, value |-> value]

\* The row-level guard, with Python's left-to-right short-circuit `and`.
\* Mutant of GuardOutcome: the first rjrPTS entry is not compared with the cut.
GuardWithoutPtsCut(d, idx) ==
    LET row == d.rows[idx] IN
    IF "rjr_Ms" \notin d.cols THEN "raise"
    ELSE IF ~(Len(row["rjr_Ms"]) > 0) THEN "fail"
    ELSE IF "rjr_Rs" \notin d.cols THEN "raise"
    ELSE IF ~(Len(row["rjr_Rs"]) > 0) THEN "fail"
    ELSE IF "rjrPTS" \notin d.cols THEN "raise"
    ELSE IF ~(Len(row["rjrPTS"]) > 0) THEN "fail"
    ELSE "pass"

GuardOutcome(d, idx) ==
    LET row == d.rows[idx] IN
    IF "rjr_Ms" \notin d.cols THEN "raise"
    ELSE IF ~(Len(row["rjr_Ms"]) > 0) THEN "fail"
    ELSE IF "rjr_Rs" \notin d.cols THEN "raise"
    ELSE IF ~(Len(row["rjr_Rs"]) > 0) THEN "fail"
    ELSE IF "rjrPTS" \notin d.cols THEN "raise"
    ELSE IF ~(Len(row["rjrPTS"]) > 0) THEN "fail"
    ELSE IF row["rjrPTS"][1] < RJR_PTS_CUT THEN "pass"
    ELSE "fail"

\* Mutant of BaseWeight: the data sample is weighted like a simulated one.
BaseWeightIgnoringIsData(d, idx, isData) ==
    IF "evtFillWgt" \notin d.cols THEN Call(TRUE, 0)
    ELSE Call(FALSE, d.rows[idx]["evtFillWgt"] * Luminosity)

\* base_weight = 1.0 if is_data else data['evtFillWgt'][idx] * self.luminosity
BaseWeight(d, idx, isData) ==
    IF isData THEN Call(FALSE, 1)
    ELSE IF "evtFillWgt" \notin d.cols THEN Call(TRUE, 0)
    ELSE Call(FALSE, d.rows[idx]["evtFillWgt"] * Luminosity)

\* Mutant of FlattenInto: the row weight is appended once per row, not per element.
RECURSIVE FlattenWeightOncePerRow(_, _, _, _, _)
FlattenWeightOncePerRow(ed, var_key, sv_array, j, base_weight) ==
    IF j > Len(sv_array) THEN ed
    ELSE FlattenWeightOncePerRow(
            LET ed1 == DictAppend(ed, VarKey(var_key), sv_array[j] * ScaleMilli(var_key))
            IN IF j = 1 THEN DictAppend(ed1, WeightsKey(var_key), base_weight) ELSE ed1,
            var_key, sv_array, j + 1, base_weight)

\* Mutant of FlattenInto: the elements of a row are appended in reverse order.
RECURSIVE FlattenReversed(_, _, _, _, _)
FlattenReversed(ed, var_key, sv_array, j, base_weight) ==
    IF j > Len(sv_array) THEN ed
    ELSE FlattenReversed(
            DictAppend(DictAppend(ed, VarKey(var_key),
                                  sv_array[Len(sv_array) + 1 - j] * ScaleMilli(var_key)),
                       WeightsKey(var_key), base_weight),
            var_key, sv_array, j + 1, base_weight)

\* One pass of `for sv_val in sv_array`: a value and the row weight per element.
RECURSIVE FlattenInto(_, _, _, _, _)
FlattenInto(ed, var_key, sv_array, j, base_weight) ==
    IF j > Len(sv_array) THEN ed
    ELSE FlattenInto(
            DictAppend(DictAppend(ed, VarKey(var_key), sv_array[j] * ScaleMilli(var_key)),
                       WeightsKey(var_key), base_weight),
            var_key, sv_array, j + 1, base_weight)

\* Mutant of ExtractVariable: every element of rjr_Ms and rjr_Rs is stored, not
\* element [0] only.
ExtractVariableAllElements(ed, d, idx, var_key, base_weight) ==
    IF var_key \notin d.cols THEN Call(FALSE, ed)
    ELSE
      LET row == d.rows[idx]
          ed0 == IF VarKey(var_key) \in DOMAIN ed THEN ed
                 ELSE DictPut(DictPut(ed, VarKey(var_key), <<>>), WeightsKey(var_key), <<>>)
      IN
      IF var_key \in {"rjr_Ms", "rjr_Rs"} \/ IsPerObject(var_key) THEN
         IF var_key \in d.nonnumeric /\ Len(row[var_key]) > 0
         THEN Call(TRUE, ed0)
         ELSE Call(FALSE, FlattenInto(ed0, var_key, row[var_key], 1, base_weight))
      ELSE IF ~IsVector(var_key) THEN
         Call(FALSE,
              DictAppend(DictAppend(ed0, VarKey(var_key), row[var_key] * ScaleMilli(var_key)),
                         WeightsKey(var_key), base_weight))
      ELSE Call(FALSE, ed0)

\* Body of `for var_key, var_config in AnalysisConfig.VARIABLES.items()` for one key.
ExtractVariable(ed, d, idx, var_key, base_weight) ==
    IF var_key \notin d.cols THEN Call(FALSE, ed)
    ELSE
      LET row == d.rows[idx]
          ed0 == IF VarKey(var_key) \in DOMAIN ed THEN ed
                 ELSE IF var_key # "weights"
                      THEN DictPut(DictPut(ed, VarKey(var_key), <<>>), WeightsKey(var_key), <<>>)
                      ELSE DictPut(ed, VarKey(var_key), <<>>)
      IN
      IF var_key \in {"rjr_Ms", "rjr_Rs"} THEN
         IF Len(row[var_key]) > 0
         THEN Call(FALSE,
                   DictAppend(DictAppend(ed0, VarKey(var_key), row[var_key][1] * ScaleMilli(var_key)),
                              WeightsKey(var_key), base_weight))
         ELSE Call(FALSE, ed0)
      ELSE IF IsPerObject(var_key) THEN
         IF var_key \in d.nonnumeric /\ Len(row[var_key]) > 0
         THEN Call(TRUE, ed0)
         ELSE Call(FALSE, FlattenInto(ed0, var_key, row[var_key], 1, base_weight))
      ELSE IF ~IsVector(var_key) THEN
         Call(FALSE,
              DictAppend(DictAppend(ed0, VarKey(var_key), row[var_key] * ScaleMilli(var_key)),
                         WeightsKey(var_key), base_weight))
      ELSE Call(FALSE, ed0)

RECURSIVE ExtractRow(_, _, _, _, _)
ExtractRow(ed, d, idx, k, base_weight) ==
    IF k > Len(VariableKeys) THEN Call(FALSE, ed)
    ELSE Bind(ExtractVariable(ed, d, idx, VariableKeys[k], base_weight),
              LAMBDA r : IF r.raised THEN r
                         ELSE ExtractRow(r.value, d, idx, k + 1, base_weight))

\* Body of `for idx in indices` from row idx on; rows outside the mask are not visited.
RECURSIVE ExtractFrom(_, _, _, _, _)
ExtractFrom(ed, d, m, isData, idx) ==
    IF idx > Len(d.rows) THEN Call(FALSE, ed)
    ELSE IF ~m[idx] THEN ExtractFrom(ed, d, m, isData, idx + 1)
    ELSE IF GuardOutcome(d, idx) = "raise" THEN Call(TRUE, ed)
    ELSE IF GuardOutcome(d, idx) = "fail" THEN ExtractFrom(ed, d, m, isData, idx + 1)
    ELSE IF BaseWeight(d, idx, isData).raised THEN Call(TRUE, ed)
    ELSE Bind(ExtractRow(ed, d, idx, 1, BaseWeight(d, idx, isData).value),
              LAMBDA r : IF r.raised THEN r
                         ELSE ExtractFrom(r.value, d, m, isData, idx + 1))

\* _extract_values(data, mask, is_data): Call(TRUE, _) when it raises.
ExtractValues(d, m, isData) ==
    Bind(ExtractFrom(EmptyDict, d, m, isData, 1),
         LAMBDA r : IF r.raised THEN Call(TRUE, EmptyDict) ELSE r)

NoneValue == [none |-> TRUE, d |-> EmptyDict]
Some(d) == [none |-> FALSE, d |-> d]

\* _process_extracted_data(extracted_vars): NoneValue for None.
ProcessExtractedData(extracted_vars) ==
    IF DOMAIN extracted_vars = {} \/ VarKey("rjr_Ms") \notin DOMAIN extracted_vars
    THEN NoneValue
    ELSE LET kept == { k \in DOMAIN extracted_vars : ~EndsWithWeights(k) }
             wkeys == { Append(k, "_weights") : k \in kept } \cap DOMAIN extracted_vars
             dflt == IF WeightsKey("rjr_Ms") \in DOMAIN extracted_vars
                     THEN {DefaultWeightsKey} ELSE {}
         IN Some([ k \in kept \cup wkeys \cup dflt |->
                     IF k = DefaultWeightsKey /\ dflt # {}
                     THEN extracted_vars[WeightsKey("rjr_Ms")]
                     ELSE extracted_vars[k] ])

----------------------------------------------------------------------------
(* Baseline mask (SelectionManager.flags, DataLoader.load_data_unified)     *)

\* self.selection_manager.flags
SelectionManagerFlags == <<"hlt_flags", "Flag_MetFilters">>

\* The scalar cuts of the baseline, in the order the loader applies them.
ScalarCuts == <<"selCMet", "evtFillWgt">>

\* Element idx of the boolean array of one baseline condition.
ConditionHolds(d, c, idx) ==
    IF c = "selCMet" THEN d.rows[idx]["selCMet"] > MET_CUT
    ELSE IF c = "evtFillWgt" THEN d.rows[idx]["evtFillWgt"] < EVT_WGT_CUT
    ELSE d.rows[idx][c] = 1

\* Mutant of AndInto: the condition array replaces the mask instead of being
\* and-ed into it (`=` for `&=`).
AssignInto(m, d, c) == [i \in 1..Len(m) |-> ConditionHolds(d, c, i)]

\* base_mask &= (condition array)
AndInto(m, d, c) == [i \in 1..Len(m) |-> m[i] /\ ConditionHolds(d, c, i)]

\* One statement of the baseline: a scalar cut indexes its column (KeyError when
\* the column is missing); a flag cut is applied only `if flag in data`.
ApplyCondition(m, d, c) ==
    IF c \in {"selCMet", "evtFillWgt"}
    THEN IF c \in d.cols THEN Call(FALSE, AndInto(m, d, c)) ELSE Call(TRUE, m)
    ELSE IF c \in d.cols THEN Call(FALSE, AndInto(m, d, c)) ELSE Call(FALSE, m)

RECURSIVE ApplyConditions(_, _, _, _)
ApplyConditions(m, d, conds, k) ==
    IF k > Len(conds) THEN Call(FALSE, m)
    ELSE LET r == ApplyCondition(m, d, conds[k]) IN
         IF r.raised THEN r ELSE ApplyConditions(r.value, d, conds, k + 1)

\* np.ones(n_events, dtype=bool) with n_events = len(data['evtFillWgt'])
OnesMask(d) == [i \in 1..Len(d.rows) |-> TRUE]

\* Lines 214-224 of load_data_unified: the baseline mask of a file.
BaseMask(d) ==
    IF "evtFillWgt" \notin d.cols THEN Call(TRUE, <<>>)
    ELSE ApplyConditions(OnesMask(d), d, ScalarCuts \o SelectionManagerFlags, 1)

----------------------------------------------------------------------------
(* DataLoader._parse_simple_cut and DataLoader._evaluate_single_condition   *)
(*                                                                          *)
(* A string is a sequence of one-character strings.  A number read from a   *)
(* literal is the fraction num / den (den a power of ten), so that a        *)
(* decimal literal keeps its value.                                         *)

Letters ==
    { "a", "b", "c", "d", "e", "f", "g", "h", "i", "j", "k", "l", "m",
      "n", "o", "p", "q", "r", "s", "t", "u", "v", "w", "x", "y", "z",
      "A", "B", "C", "D", "E", "F", "G", "H", "I", "J", "K", "L", "M",
      "N", "O", "P", "Q", "R", "S", "T", "U", "V", "W", "X", "Y", "Z" }

Digits == { "0", "1", "2", "3", "4", "5", "6", "7", "8", "9" }

\* \w
WordChars == Letters \cup Digits \cup { "_" }

\* \s, and the characters str.strip() removes
Whitespace == { " ", "\t", "\n", "\r" }

DigitValue(c) ==
    CASE c = "0" -> 0 [] c = "1" -> 1 [] c = "2" -> 2 [] c = "3" -> 3 [] c = "4" -> 4
      [] c = "5" -> 5 [] c = "6" -> 6 [] c = "7" -> 7 [] c = "8" -> 8 [] c = "9" -> 9

\* The operator alternation of the regular expression, in its order.
OperatorAlternatives ==
    << <<"=", "=">>, <<"!", "=">>, <<"<", "=">>, <<">", "=">>, <<"<">>, <<">">> >>

\* Does text t occur in s at position i?
StartsAt(s, i, t) ==
    /\ i + Len(t) - 1 <= Len(s)
    /\ \A j \in 1..Len(t) : s[i + j - 1] = t[j]

\* End of the longest run of characters of class cls starting at i (greedy X*).
RECURSIVE SpanEnd(_, _, _)
SpanEnd(s, i, cls) ==
    IF i <= Len(s) /\ s[i] \in cls THEN SpanEnd(s, i + 1, cls) ELSE i

\* str.split(sep): non-overlapping occurrences, left to right.
RECURSIVE SplitFrom(_, _, _, _)
SplitFrom(s, sep, i, start) ==
    IF i + Len(sep) - 1 > Len(s) THEN << SubSeq(s, start, Len(s)) >>
    ELSE IF StartsAt(s, i, sep)
         THEN << SubSeq(s, start, i - 1) >> \o SplitFrom(s, sep, i + Len(sep), i + Len(sep))
         ELSE SplitFrom(s, sep, i + 1, start)

Split(s, sep) == SplitFrom(s, sep, 1, 1)

\* str.strip()
\* Start of the longest run of characters of class cls ending at i.
RECURSIVE SpanStart(_, _, _)
SpanStart(s, i, cls) ==
    IF i >= 1 /\ s[i] \in cls THEN SpanStart(s, i - 1, cls) ELSE i

Strip(s) == SubSeq(s, SpanEnd(s, 1, Whitespace), SpanStart(s, Len(s), Whitespace))

NoMatch == [matched |-> FALSE, var_name |-> <<>>, operator |-> <<>>, value_str |-> <<>>]

\* The group (\d+(?:\.\d+)?) at position p4, after the operator op.
MatchValue(condition, p1, op, p4) ==
    Bind(SpanEnd(condition, p4, Digits),
         LAMBDA p5 :
            IF p5 = p4 THEN NoMatch
            ELSE Bind(IF p5 <= Len(condition) /\ condition[p5] = "."
                      THEN SpanEnd(condition, p5 + 1, Digits) ELSE p5,
                      LAMBDA p6 :
                         [ matched |-> TRUE,
                           var_name |-> SubSeq(condition, 1, p1 - 1),
                           operator |-> op,
                           value_str |-> SubSeq(condition, p4,
                                                (IF p6 > p5 + 1 THEN p6 ELSE p5) - 1) ]))

\* The group (==|!=|<=|>=|<|>) at position p2: the first alternative that occurs.
MatchOperator(condition, p1, p2) ==
    Bind({ k \in 1..Len(OperatorAlternatives) : StartsAt(condition, p2, OperatorAlternatives[k]) },
         LAMBDA ops :
            IF ops = {} THEN NoMatch
            ELSE Bind(OperatorAlternatives[CHOOSE k \in ops : \A k2 \in ops : k <= k2],
                      LAMBDA op :
                         Bind(SpanEnd(condition, p2 + Len(op), Whitespace),
                              LAMBDA p4 : MatchValue(condition, p1, op, p4))))

\* re.match(r'(\w+)\s*(==|!=|<=|>=|<|>)\s*(\d+(?:\.\d+)?)', condition): anchored at
\* the start only.  Every quantifier is greedy and no shorter choice can lead to a
\* match (an operator starts with no word or space character, a digit run is
\* followed by an optional group), so the first choice is the match.
RegexMatch(condition) ==
    Bind(SpanEnd(condition, 1, WordChars),
         LAMBDA p1 :
            IF p1 = 1 THEN NoMatch
            ELSE Bind(SpanEnd(condition, p1, Whitespace),
                      LAMBDA p2 : MatchOperator(condition, p1, p2)))

\* The number written by the first n characters of a run of digits.
RECURSIVE DigitsPrefixValue(_, _)
DigitsPrefixValue(s, n) ==
    IF n = 0 THEN 0 ELSE 10 * DigitsPrefixValue(s, n - 1) + DigitValue(s[n])

DigitsValue(s) == DigitsPrefixValue(s, Len(s))

RECURSIVE PowerOfTen(_)
PowerOfTen(n) == IF n = 0 THEN 1 ELSE 10 * PowerOfTen(n - 1)

\* Mutant of NumberOf: the decimal part of the literal is dropped.
NumberOfTruncated(value_str) ==
    [num |-> DigitsValue(SubSeq(value_str, 1, SpanEnd(value_str, 1, Digits) - 1)), den |-> 1]

\* float(value_str) if '.' in value_str else int(value_str)
NumberOf(value_str) ==
    LET dots == { i \in 1..Len(value_str) : value_str[i] = "." } IN
    IF dots = {} THEN [num |-> DigitsValue(value_str), den |-> 1]
    ELSE LET dot == CHOOSE i \in dots : TRUE
             frac == SubSeq(value_str, dot + 1, Len(value_str))
         IN [ num |-> DigitsValue(SubSeq(value_str, 1, dot - 1)) * PowerOfTen(Len(frac))
                        + DigitsValue(frac),
              den |-> PowerOfTen(Len(frac)) ]

\* The comparison `array <operator> value` on one element.
Compare(a, operator, value) ==
    LET l == a * value.den
        r == value.num
    IN CASE operator = <<"=", "=">> -> l = r
         [] operator = <<"!", "=">> -> l # r
         [] operator = <<"<">> -> l < r
         [] operator = <<">">> -> l > r
         [] operator = <<"<", "=">> -> l <= r
         [] operator = <<">", "=">> -> l >= r

MaskResult(m) == [status |-> "ok", kind |-> "", text |-> <<>>, mask |-> m]
ValueError(kind, text) == [status |-> "error", kind |-> kind, text |-> text, mask |-> <<>>]

\* Mutant of EvaluateSingleCondition: an unknown variable is not rejected but read
\* as a column of zeros.
EvaluateUnknownAsZeros(condition, variables) ==
    Bind(RegexMatch(condition),
         LAMBDA match :
            IF ~match.matched THEN ValueError("Cannot parse condition", condition)
            ELSE Bind(IF match.var_name \in DOMAIN variables
                      THEN variables[match.var_name]
                      ELSE [i \in 1..Len(variables[CHOOSE k \in DOMAIN variables : TRUE]) |-> 0],
                      LAMBDA array :
                         Bind(NumberOf(match.value_str),
                              LAMBDA value :
                                 MaskResult([i \in 1..Len(array) |->
                                               Compare(array[i], match.operator, value)]))))

\* _evaluate_single_condition(condition, variables)
EvaluateSingleCondition(condition, variables) ==
    Bind(RegexMatch(condition),
         LAMBDA match :
            IF ~match.matched THEN ValueError("Cannot parse condition", condition)
            ELSE IF match.var_name \notin DOMAIN variables
                 THEN ValueError("Unknown variable", match.var_name)
                 ELSE Bind(variables[match.var_name],
                           LAMBDA array :
                              Bind(NumberOf(match.value_str),
                                   LAMBDA value :
                                      MaskResult([i \in 1..Len(array) |->
                                                    Compare(array[i], match.operator, value)]))))

\* result_mask = part_mask if result_mask is None else result_mask & part_mask
AndMasks(result_mask, part_mask) ==
    IF result_mask.status = "none" THEN part_mask
    ELSE MaskResult([i \in 1..Len(result_mask.mask) |-> result_mask.mask[i] /\ part_mask.mask[i]])

\* The loop `for part in parts` of _parse_simple_cut from part k on.
RECURSIVE EvaluateParts(_, _, _, _)
EvaluateParts(parts, variables, k, result_mask) ==
    IF k > Len(parts) THEN result_mask
    ELSE Bind(Strip(parts[k]),
              LAMBDA part :
                 Bind(EvaluateSingleCondition(part, variables),
                      LAMBDA part_mask :
                         IF part_mask.status = "error" THEN part_mask
                         ELSE Bind(AndMasks(result_mask, part_mask),
                                   LAMBDA m : EvaluateParts(parts, variables, k + 1, m))))

AmpersandSeparator == <<" ", "&", " ">>

\* _parse_simple_cut(cut_string, variables)
ParseSimpleCut(cut, variables) ==
    Bind(Split(cut, AmpersandSeparator),
         LAMBDA parts :
            IF Len(parts) > 1
            THEN EvaluateParts(parts, variables, 1,
                               [status |-> "none", kind |-> "", text |-> <<>>, mask |-> <<>>])
            ELSE EvaluateSingleCondition(cut, variables))

----------------------------------------------------------------------------
(* Values of the variables a specification does not use *)

NoData == [cols |-> {}, rows |-> <<>>, nonnumeric |-> {}]
NotParsed == [status |-> "none", kind |-> "", text |-> <<>>, mask |-> <<>>]
NoExpr == [conds |-> <<>>, seps |-> <<>>]

ExtractIdle == /\ is_data = FALSE
               /\ extracted = Call(FALSE, EmptyDict)
               /\ file_data = NoneValue
MaskIdle == applied = {}
ParseIdle == /\ cut_expr = NoExpr
             /\ cut_string = <<>>
             /\ bindings = EmptyDict
             /\ parsed = NotParsed

NoArgs == [flags |-> <<>>, data |-> FALSE, ratio |-> FALSE, unblind |-> FALSE]
MainIdle == /\ args = NoArgs
            /\ loaded = EmptyDict
            /\ all_flags_and_cuts = <<>>
            /\ item_idx = 0
            /\ plotted = <<>>
CombineIdle == /\ combine_fn = "none"
               /\ data_dict = <<>>
               /\ combined = Call(FALSE, NoneValue)
LoaderIdle == /\ entry = "none"
              /\ file_paths = <<>>
              /\ event_flags = <<>>
              /\ custom_cuts = <<>>
              /\ fidx = 0
              /\ ridx = 0
              /\ open_files = {}
              /\ event_data = EmptyDict
              /\ custom_data = EmptyDict
NoLoader == [constructed |-> FALSE, flags |-> <<>>,
             loading_summary |-> [data_types_loaded |-> {}, event_flags |-> {},
                                  custom_cuts |-> {}, files_processed |-> 0]]
SummaryIdle == /\ loader = NoLoader
               /\ calls = <<>>
LabelIdle == /\ final_state = <<>>
             /\ label = <<>>
NotAsked == [kind |-> "not_asked", value |-> FALSE]
NoInput == [isatty |-> FALSE, keys |-> <<>>, pending |-> <<>>, eof |-> FALSE]
PromptIdle == /\ stdin = NoInput
              /\ selected = 0
              /\ prompt_result = NotAsked
EpsIdle == /\ eps_files = <<>>
           /\ epstopdf = FALSE
           /\ num_workers = 0
           /\ task = <<>>
           /\ worker_calls = <<>>
           /\ results = <<>>
           /\ success_count = 0
           /\ fail_list = <<>>
LaterIdle == SummaryIdle /\ LabelIdle /\ PromptIdle /\ EpsIdle
LoadIdle == LoaderIdle /\ MainIdle /\ CombineIdle /\ LaterIdle

extractVars == <<is_data, extracted, file_data>>
mainVars == <<args, loaded, all_flags_and_cuts, item_idx, plotted>>
combineVars == <<combine_fn, data_dict, combined>>
loaderVars == <<entry, file_paths, event_flags, custom_cuts, fidx, ridx, open_files,
                event_data, custom_data>>
summaryVars == <<loader, calls>>
labelVars == <<final_state, label>>
promptVars == <<stdin, selected, prompt_result>>
epsVars == <<eps_files, epstopdf, num_workers, task, worker_calls, results, success_count, fail_list>>
laterVars == <<summaryVars, labelVars, promptVars, epsVars>>
loadVars == <<loaderVars, mainVars, combineVars, laterVars>>
maskVars == <<applied>>
parseVars == <<cut_expr, cut_string, bindings, parsed>>

----------------------------------------------------------------------------
(* Specification SpecExtract: _extract_values followed by                   *)
(* _process_extracted_data on any table of at most MaxRows rows and any     *)
(* mask.                                                                    *)

MaxRows == 2

\* Kinematic columns of a row: passing the guard, empty rjr_Ms, empty rjr_Rs,
\* empty rjrPTS, rjrPTS[0] at the threshold.
KinematicChoices ==
    { [rjr_Ms |-> <<2000, 500>>, rjr_Rs |-> <<1>>, rjrPTS |-> <<100>>],
      [rjr_Ms |-> <<>>,          rjr_Rs |-> <<1>>, rjrPTS |-> <<100>>],
      [rjr_Ms |-> <<1000>>,      rjr_Rs |-> <<>>,  rjrPTS |-> <<100>>],
      [rjr_Ms |-> <<1000>>,      rjr_Rs |-> <<2>>, rjrPTS |-> <<>>],
      [rjr_Ms |-> <<1000>>,      rjr_Rs |-> <<2>>, rjrPTS |-> <<150, 20>>] }

\* Per-object arrays of a row: no object, one, two.
ObjectChoices == { <<>>, <<3>>, <<4, 5>> }

ExtractRows ==
    { [ rjr_Ms |-> k.rjr_Ms, rjr_Rs |-> k.rjr_Rs, rjrPTS |-> k.rjrPTS,
        evtFillWgt |-> w, selCMet |-> 200, HadronicSV_mass |-> o ] :
        k \in KinematicChoices, w \in {2, 3}, o \in ObjectChoices }

ExtractColumns == {"rjr_Ms", "rjr_Rs", "rjrPTS", "evtFillWgt", "selCMet", "HadronicSV_mass"}

ExtractTables ==
    { [cols |-> c, rows |-> r, nonnumeric |-> {}] :
        c \in {ExtractColumns, ExtractColumns \ {"HadronicSV_mass"}},
        r \in UNION { [1..n -> ExtractRows] : n \in 0..MaxRows } }

ExtractInit ==
    /\ mode = "extract"
    /\ pc = "extract"
    /\ data \in ExtractTables
    /\ mask \in [1..Len(data.rows) -> BOOLEAN]
    /\ is_data \in BOOLEAN
    /\ extracted = Call(FALSE, EmptyDict)
    /\ file_data = NoneValue
    /\ MaskIdle /\ ParseIdle /\ LoadIdle

\* extracted_vars = self._extract_values(data, combined_mask, is_data)
ExtractStep ==
    /\ mode = "extract" /\ pc = "extract"
    /\ extracted' = ExtractValues(data, mask, is_data)
    /\ pc' = IF extracted'.raised THEN "raised" ELSE "process"
    /\ UNCHANGED <<mode, data, mask, is_data, file_data, maskVars, parseVars, loadVars>>

\* file_data = self._process_extracted_data(extracted_vars)
ProcessStep ==
    /\ mode = "extract" /\ pc = "process"
    /\ file_data' = ProcessExtractedData(extracted.value)
    /\ pc' = "done"
    /\ UNCHANGED <<mode, data, mask, is_data, extracted, maskVars, parseVars, loadVars>>

ExtractNext == ExtractStep \/ ProcessStep

SpecExtract == ExtractInit /\ [][ExtractNext]_vars

----------------------------------------------------------------------------
(* Properties of the extraction (checked under SpecExtract) *)

\* The row-level guard as the design states it.
RowQualifies(row) ==
    /\ Len(row["rjr_Ms"]) > 0
    /\ Len(row["rjr_Rs"]) > 0
    /\ Len(row["rjrPTS"]) > 0
    /\ row["rjrPTS"][1] < RJR_PTS_CUT

\* Rows that contribute: selected by the mask and passing the guard.
ContributingRows == { i \in 1..Len(data.rows) : mask[i] /\ RowQualifies(data.rows[i]) }

\* The entries one row holds for a variable.
RowEntries(row, var_key) ==
    IF var_key \in {"rjr_Ms", "rjr_Rs"} THEN << row[var_key][1] >>
    ELSE IF IsPerObject(var_key) THEN row[var_key]
    ELSE << row[var_key] >>

\* Number of entries the contributing rows before row i hold for a variable.
RECURSIVE EntriesBefore(_, _)
EntriesBefore(i, var_key) ==
    IF i <= 1 THEN 0
    ELSE EntriesBefore(i - 1, var_key)
         + (IF (i - 1) \in ContributingRows
            THEN Len(RowEntries(data.rows[i - 1], var_key)) ELSE 0)

\* The weight the design gives every observation of row i.
RowWeight(i) == IF is_data THEN 1 ELSE data.rows[i]["evtFillWgt"] * Luminosity

StoredSet == pc = "done" /\ ~file_data.none

PresentVariables ==
    { VariableKeys[k] : k \in { k \in 1..Len(VariableKeys) :
                                   VarKey(VariableKeys[k]) \in DOMAIN file_data.d } }

\* C1: in every stored ObservationSet, every variable present has a weight array
\* of the same length as its value array.
WeightLengthsMatch ==
    StoredSet =>
        \A var_key \in PresentVariables :
            /\ WeightsKey(var_key) \in DOMAIN file_data.d
            /\ Len(file_data.d[WeightsKey(var_key)]) = Len(file_data.d[VarKey(var_key)])

\* Witness of C1: a stored set built from two contributing rows whose per-object
\* arrays have different lengths, one of them empty.
WitnessWeightLengths ==
    /\ StoredSet
    /\ "HadronicSV_mass" \in PresentVariables
    /\ \E i, j \in ContributingRows :
          /\ Len(data.rows[i]["HadronicSV_mass"]) = 0
          /\ Len(data.rows[j]["HadronicSV_mass"]) = 2

\* C2: a contributing row with k entries in a per-object variable adds exactly its
\* k values, in the row's order, and k copies of its weight at the same positions.
FlatteningHolds ==
    StoredSet =>
        \A var_key \in { v \in PresentVariables : IsPerObject(v) } :
            LET values == file_data.d[VarKey(var_key)]
                weights == file_data.d[WeightsKey(var_key)]
                total == EntriesBefore(Len(data.rows) + 1, var_key)
            IN /\ Len(values) = total
               /\ Len(weights) = total
               /\ \A i \in ContributingRows :
                     \A e \in 1..Len(data.rows[i][var_key]) :
                        /\ values[EntriesBefore(i, var_key) + e]
                              = data.rows[i][var_key][e] * ScaleMilli(var_key)
                        /\ weights[EntriesBefore(i, var_key) + e] = RowWeight(i)

\* Witness of C2: a contributing row with two objects after a contributing row
\* with one object and another weight.
WitnessFlattening ==
    /\ StoredSet
    /\ ~is_data
    /\ "HadronicSV_mass" \in PresentVariables
    /\ \E i, j \in ContributingRows :
          /\ i < j
          /\ Len(data.rows[i]["HadronicSV_mass"]) = 1
          /\ Len(data.rows[j]["HadronicSV_mass"]) = 2
          /\ data.rows[i]["evtFillWgt"] # data.rows[j]["evtFillWgt"]

\* C3: every weight emitted for a simulated sample is evtFillWgt * luminosity of
\* its row, and every weight emitted for a data sample is 1.
WeightScaling ==
    StoredSet =>
        /\ \A var_key \in PresentVariables :
              LET weights == file_data.d[WeightsKey(var_key)] IN
              /\ Len(weights) = EntriesBefore(Len(data.rows) + 1, var_key)
              /\ \A i \in ContributingRows :
                    \A e \in 1..Len(RowEntries(data.rows[i], var_key)) :
                       weights[EntriesBefore(i, var_key) + e]
                          = IF is_data THEN 1
                            ELSE data.rows[i]["evtFillWgt"] * Luminosity
        /\ \A n \in 1..Len(file_data.d[DefaultWeightsKey]) :
              is_data => file_data.d[DefaultWeightsKey][n] = 1

\* Witness of C3: a data sample whose selected rows carry weight-column values
\* other than 1.
WitnessWeightScaling ==
    /\ StoredSet
    /\ is_data
    /\ Cardinality(ContributingRows) = 2
    /\ \A i \in ContributingRows : data.rows[i]["evtFillWgt"] = 3

----------------------------------------------------------------------------
(* Specification SpecMask: the statements of the baseline mask applied to   *)
(* a table in any order, then a second time in any order.                   *)

MaxMaskRows == 2

MaskRows ==
    { [selCMet |-> met, evtFillWgt |-> w, hlt_flags |-> h, Flag_MetFilters |-> f] :
        met \in {150, 200}, w \in {2, 10}, h \in {0, 1}, f \in {0, 1} }

\* Tables with the scalar columns and any subset of the flag columns.
MaskTables ==
    { [cols |-> {"selCMet", "evtFillWgt"} \cup fl, rows |-> r, nonnumeric |-> {}] :
        fl \in SUBSET {"hlt_flags", "Flag_MetFilters"},
        r \in UNION { [1..n -> MaskRows] : n \in 0..MaxMaskRows } }

BaselineConditions == {"selCMet", "evtFillWgt", "hlt_flags", "Flag_MetFilters"}

MaskInit ==
    /\ mode = "mask"
    /\ pc = "first"
    /\ data \in MaskTables
    /\ mask = OnesMask(data)
    /\ applied = {}
    /\ ExtractIdle /\ ParseIdle /\ LoadIdle

\* base_mask &= (data[column] <op> threshold), for a scalar cut not yet applied
\* in this pass.
ApplyScalarCut(c) ==
    /\ mode = "mask" /\ pc \in {"first", "second"}
    /\ c \in {"selCMet", "evtFillWgt"} \ applied
    /\ mask' = ApplyCondition(mask, data, c).value
    /\ applied' = applied \cup {c}
    /\ UNCHANGED <<mode, pc, data, extractVars, parseVars, loadVars>>

\* if flag in data: base_mask &= (data[flag] == 1), for a flag not yet applied
\* in this pass.
ApplyFlagCut(c) ==
    /\ mode = "mask" /\ pc \in {"first", "second"}
    /\ c \in {"hlt_flags", "Flag_MetFilters"} \ applied
    /\ mask' = ApplyCondition(mask, data, c).value
    /\ applied' = applied \cup {c}
    /\ UNCHANGED <<mode, pc, data, extractVars, parseVars, loadVars>>

\* After the first pass the whole set of conditions is applied again to its result.
StartSecondPass ==
    /\ mode = "mask" /\ pc = "first"
    /\ applied = BaselineConditions
    /\ pc' = "second"
    /\ applied' = {}
    /\ UNCHANGED <<mode, data, mask, extractVars, parseVars, loadVars>>

MaskNext ==
    \/ \E c \in BaselineConditions : ApplyScalarCut(c)
    \/ \E c \in BaselineConditions : ApplyFlagCut(c)
    \/ StartSecondPass

SpecMask == MaskInit /\ [][MaskNext]_vars

\* A row passes the baseline when every scalar cut holds and every required flag
\* the table has equals 1.
RowPassesBaseline(d, i) ==
    /\ d.rows[i]["selCMet"] > MET_CUT
    /\ d.rows[i]["evtFillWgt"] < EVT_WGT_CUT
    /\ \A k \in 1..Len(SelectionManagerFlags) :
          SelectionManagerFlags[k] \in d.cols => d.rows[i][SelectionManagerFlags[k]] = 1

\* C4: whatever the order in which the scalar cuts and flag conditions were
\* applied, and also while they are applied a second time, the mask is the mask the
\* loader computes, has one entry per row and is the AND of all conditions.
BaselineMaskOrderIndependent ==
    (mode = "mask" /\ (applied = BaselineConditions \/ pc = "second")) =>
        /\ mask = BaseMask(data).value
        /\ Len(mask) = Len(data.rows)
        /\ \A i \in 1..Len(data.rows) : mask[i] <=> RowPassesBaseline(data, i)

\* Witness of C4: the second pass has applied a flag before the scalar cuts, on a
\* table with both flag columns, a row that passes and a row that fails one flag only.
WitnessBaselineMask ==
    /\ mode = "mask" /\ pc = "second"
    /\ applied = {"Flag_MetFilters"}
    /\ {"hlt_flags", "Flag_MetFilters"} \subseteq data.cols
    /\ \E i, j \in 1..Len(data.rows) :
          /\ mask[i]
          /\ ~mask[j]
          /\ data.rows[j]["selCMet"] > MET_CUT
          /\ data.rows[j]["evtFillWgt"] < EVT_WGT_CUT
          /\ data.rows[j]["hlt_flags"] = 1

----------------------------------------------------------------------------
(* Specification SpecParse: _parse_simple_cut on cut strings rendered from  *)
(* structured expressions, well-formed or not, and on bindings of at most   *)
(* MaxBindRows rows.                                                        *)

MaxBindRows == 2

cSelCMet == <<"s", "e", "l", "C", "M", "e", "t">>
cNSelPhotons == <<"n", "S", "e", "l", "P", "h", "o", "t", "o", "n", "s">>
cSVnHadronic == <<"S", "V", "_", "n", "H", "a", "d", "r", "o", "n", "i", "c">>
cUnknown == <<"x">>

\* The keys load_data_unified binds (lines 250-254).
BoundNames == {cSelCMet, cNSelPhotons, cSVnHadronic}

ColumnOf(name) ==
    IF name = cSelCMet THEN "selCMet"
    ELSE IF name = cNSelPhotons THEN "nSelPhotons" ELSE "SV_nHadronic"

ValidOperators == { OperatorAlternatives[k] : k \in 1..Len(OperatorAlternatives) }

\* Literal texts with the number they denote (num / den); the last is no number.
LiteralChoices ==
    { [text |-> <<"1", "5", "0">>, numeric |-> TRUE,  num |-> 150, den |-> 1],
      [text |-> <<"1">>,           numeric |-> TRUE,  num |-> 1,   den |-> 1],
      [text |-> <<"1", ".", "5">>, numeric |-> TRUE,  num |-> 15,  den |-> 10],
      [text |-> <<"a">>,           numeric |-> FALSE, num |-> 0,   den |-> 1] }

Condition(id, ws, op, lit, trail) ==
    [id |-> id, ws |-> ws, op |-> op, lit |-> lit, trail |-> trail]

\* First conditions: any identifier, spacing, operator (or `>>`), literal and
\* possibly text after the literal.
FirstConditions ==
    { Condition(id, ws, op, lit, trail) :
        id \in {cSelCMet, cNSelPhotons, cUnknown},
        ws \in {<<>>, <<" ">>},
        op \in ValidOperators \cup { <<">", ">">> },
        lit \in LiteralChoices,
        trail \in {<<>>, <<"b">>} }

NumericOne == [text |-> <<"1">>, numeric |-> TRUE, num |-> 1, den |-> 1]

SecondConditions ==
    { Condition(cNSelPhotons, <<>>, <<"=", "=">>, NumericOne, <<>>),
      Condition(cSVnHadronic, <<>>, <<">", "=">>, NumericOne, <<>>),
      Condition(cUnknown, <<>>, <<"<">>, NumericOne, <<>>),
      Condition(cSelCMet, <<>>, <<">", ">">>, NumericOne, <<>>) }

Separators == { AmpersandSeparator, <<"&">>, <<" ", "|", " ">> }

CutExpressions ==
    { [conds |-> <<c>>, seps |-> <<>>] : c \in FirstConditions }
    \cup { [conds |-> <<c1, c2>>, seps |-> <<sp>>] :
             c1 \in FirstConditions, c2 \in SecondConditions, sp \in Separators }

RenderCondition(c) == c.id \o c.ws \o c.op \o c.ws \o c.lit.text \o c.trail

RECURSIVE RenderFrom(_, _)
RenderFrom(e, k) ==
    IF k > Len(e.conds) THEN <<>>
    ELSE (IF k > 1 THEN e.seps[k - 1] ELSE <<>>) \o RenderCondition(e.conds[k])
         \o RenderFrom(e, k + 1)

\* The text of a structured expression.
Render(e) == RenderFrom(e, 1)

BindRows ==
    { [selCMet |-> 100, nSelPhotons |-> 1, SV_nHadronic |-> 0],
      [selCMet |-> 200, nSelPhotons |-> 1, SV_nHadronic |-> 1],
      [selCMet |-> 150, nSelPhotons |-> 2, SV_nHadronic |-> 2] }

\* The dictionary of lines 250-254 for a table.
BindingsOf(rows) ==
    [ name \in BoundNames |-> [i \in 1..Len(rows) |-> rows[i][ColumnOf(name)]] ]

ParseInit ==
    /\ mode = "parse"
    /\ pc = "parse"
    /\ cut_expr \in CutExpressions
    /\ cut_string = Render(cut_expr)
    /\ \E rows \in UNION { [1..n -> BindRows] : n \in 0..MaxBindRows } :
          /\ data = [cols |-> {"selCMet", "nSelPhotons", "SV_nHadronic"},
                     rows |-> rows, nonnumeric |-> {}]
          /\ bindings = BindingsOf(rows)
    /\ mask = <<>>
    /\ parsed = NotParsed
    /\ ExtractIdle /\ MaskIdle /\ LoadIdle

\* custom_mask = self._parse_simple_cut(custom_cut, {...})
ParseStep ==
    /\ mode = "parse" /\ pc = "parse"
    /\ parsed' = ParseSimpleCut(cut_string, bindings)
    /\ pc' = "done"
    /\ UNCHANGED <<mode, data, mask, cut_expr, cut_string, bindings, extractVars, maskVars,
                   loadVars>>

ParseNext == ParseStep

SpecParse == ParseInit /\ [][ParseNext]_vars

----------------------------------------------------------------------------
(* Properties of the cut parser (checked under SpecParse) *)

\* The grammar: identifier operator numericLiteral, joined by ' & '.
WellFormedCondition(c) ==
    /\ c.op \in ValidOperators
    /\ c.lit.numeric
    /\ c.trail = <<>>

WellFormed(e) ==
    /\ \A k \in 1..Len(e.conds) : WellFormedCondition(e.conds[k])
    /\ \A k \in 1..Len(e.seps) : e.seps[k] = <<" ", "&", " ">>

UnboundConditions(e) == { k \in 1..Len(e.conds) : e.conds[k].id \notin DOMAIN bindings }

\* What a well-formed condition means on row i of the bound arrays.
ConditionMeaning(c, i) ==
    LET l == bindings[c.id][i] * c.lit.den
        r == c.lit.num
    IN CASE c.op = <<"=", "=">> -> l = r
         [] c.op = <<"!", "=">> -> ~(l = r)
         [] c.op = <<"<", "=">> -> ~(l > r)
         [] c.op = <<">", "=">> -> ~(l < r)
         [] c.op = <<"<">> -> l < r
         [] c.op = <<">">> -> l > r

ParseDone == mode = "parse" /\ pc = "done"

\* C5: on a well-formed expression over bound identifiers the parser returns, for
\* every row, the AND of all its conditions.
ParserComputesConjunction ==
    (ParseDone /\ WellFormed(cut_expr) /\ UnboundConditions(cut_expr) = {}) =>
        /\ parsed.status = "ok"
        /\ Len(parsed.mask) = Len(data.rows)
        /\ \A i \in 1..Len(data.rows) :
              parsed.mask[i] <=>
                 \A k \in 1..Len(cut_expr.conds) : ConditionMeaning(cut_expr.conds[k], i)

\* Witness of C5: "selCMet>150 & nSelPhotons==1" on selCMet = [100, 200],
\* nSelPhotons = [1, 1] gives [False, True].
WitnessParserConjunction ==
    /\ ParseDone
    /\ cut_string = cSelCMet \o <<">", "1", "5", "0", " ", "&", " ">> \o cNSelPhotons
                       \o <<"=", "=", "1">>
    /\ bindings[cSelCMet] = <<100, 200>>
    /\ bindings[cNSelPhotons] = <<1, 1>>
    /\ parsed.status = "ok"
    /\ parsed.mask = <<FALSE, TRUE>>

\* C6: an expression that is not in the grammar fails to parse and yields no mask.
MalformedExpressionFails ==
    (ParseDone /\ ~WellFormed(cut_expr)) => parsed.status = "error"

\* C7: when a condition of a well-formed expression names an identifier that is
\* not bound, parsing fails with the unknown-variable error naming the first such
\* identifier, and no mask is returned, whatever the position of the condition.
UnknownIdentifierFails ==
    (ParseDone /\ WellFormed(cut_expr) /\ UnboundConditions(cut_expr) # {}) =>
        LET first == CHOOSE k \in UnboundConditions(cut_expr) :
                        \A k2 \in UnboundConditions(cut_expr) : k <= k2
        IN /\ parsed.status = "error"
           /\ parsed.kind = "Unknown variable"
           /\ parsed.text = cut_expr.conds[first].id
           /\ parsed.mask = <<>>

\* Witness of C7: the unknown identifier is in the second condition, after a
\* condition that evaluates.
WitnessUnknownIdentifier ==
    /\ ParseDone
    /\ WellFormed(cut_expr)
    /\ Len(data.rows) > 0
    /\ UnboundConditions(cut_expr) = {2}
    /\ parsed.status = "error"
    /\ parsed.text = cUnknown

----------------------------------------------------------------------------
(* DataLoader.load_data_unified and DataLoader.load_data                    *)
(*                                                                          *)
(* A file is [status, table]: status says whether uproot.open succeeds      *)
(* ("cannot_open"), whether the tree is in the file ("no_tree") and whether *)
(* tree.arrays succeeds ("read_error"); table holds the columns of the tree.*)

EventFlagA == "passNHad1SelectionSRTight"
EventFlagB == "passNLep1SelectionSRTight"

\* The per-object branches both entry points ask for.
PerObjectBranches ==
    { "HadronicSV_mass", "HadronicSV_dxy", "HadronicSV_dxySig", "HadronicSV_pOverE",
      "HadronicSV_decayAngle", "HadronicSV_cosTheta", "HadronicSV_nTracks",
      "LeptonicSV_mass", "LeptonicSV_dxy", "LeptonicSV_dxySig", "LeptonicSV_pOverE",
      "LeptonicSV_decayAngle", "LeptonicSV_cosTheta", "selPhoEta", "selPhoWTime" }

\* The list `branches` of load_data_unified (lines 181-195) for the given event flags.
Branches(flags) ==
    { "rjr_Ms", "rjr_Rs", "evtFillWgt", "SV_nHadronic", "selCMet", "rjrPTS", "nSelPhotons" }
    \cup PerObjectBranches
    \cup { flags[k] : k \in 1..Len(flags) }
    \cup { SelectionManagerFlags[k] : k \in 1..Len(SelectionManagerFlags) }

\* The list `branches` of load_data (lines 54-68) for the given final-state flags.
LoadDataBranches(flags) ==
    { "rjr_Ms", "rjr_Rs", "evtFillWgt", "SV_nHadronic", "selCMet", "rjrPTS" }
    \cup PerObjectBranches
    \cup { flags[k] : k \in 1..Len(flags) }
    \cup { SelectionManagerFlags[k] : k \in 1..Len(SelectionManagerFlags) }

\* available_branches = [b for b in branches if b in tree]; tree.arrays(available_branches)
ReadTable(table, flags) ==
    [table EXCEPT !.cols = @ \cap Branches(flags),
                  !.nonnumeric = @ \cap Branches(flags)]

\* data = tree.arrays(branches, library='np') of load_data: the list is not
\* filtered, and uproot raises KeyInFileError (a KeyError) for a branch the tree
\* does not have.
LoadDataRead(table, flags) ==
    IF LoadDataBranches(flags) \subseteq table.cols
    THEN Call(FALSE, [table EXCEPT !.cols = LoadDataBranches(flags),
                                   !.nonnumeric = @ \cap LoadDataBranches(flags)])
    ELSE Call(TRUE, [cols |-> {}, rows |-> <<>>, nonnumeric |-> {}])

\* trigger_branches of _apply_hlt_fallback
TriggerBranches ==
    << "Trigger_PFMET120_PFMHT120_IDTight",
       "Trigger_PFMETNoMu120_PFMHTNoMu120_IDTight",
       "Trigger_PFMET120_PFMHT120_IDTight_PFHT60",
       "Trigger_PFMETNoMu120_PFMHTNoMu120_IDTight_PFHT60" >>

\* _apply_hlt_fallback(tree): the OR of the four trigger branches; reading them
\* raises when one is missing, and the exception is raised again.
ApplyHltFallback(tree) ==
    IF \E k \in 1..Len(TriggerBranches) : TriggerBranches[k] \notin tree.cols
    THEN Call(TRUE, <<>>)
    ELSE Call(FALSE, [i \in 1..Len(tree.rows) |->
                        \E k \in 1..Len(TriggerBranches) :
                           tree.rows[i][TriggerBranches[k]] = 1])

\* The loop `for flag in self.selection_manager.flags` of load_data (lines 91-101)
\* from flag k on.
RECURSIVE LoadDataFlagCuts(_, _, _, _)
LoadDataFlagCuts(m, d, tree, k) ==
    IF k > Len(SelectionManagerFlags) THEN m
    ELSE IF SelectionManagerFlags[k] \in d.cols
         THEN Bind(AndInto(m, d, SelectionManagerFlags[k]),
                   LAMBDA m1 : LoadDataFlagCuts(m1, d, tree, k + 1))
         ELSE IF SelectionManagerFlags[k] = "hlt_flags"
              THEN Bind(ApplyHltFallback(tree),
                        LAMBDA hlt :
                           IF hlt.raised THEN LoadDataFlagCuts(m, d, tree, k + 1)
                           ELSE Bind([i \in 1..Len(m) |-> m[i] /\ hlt.value[i]],
                                     LAMBDA m1 : LoadDataFlagCuts(m1, d, tree, k + 1)))
              ELSE LoadDataFlagCuts(m, d, tree, k + 1)

\* Lines 83-101 of load_data: the baseline mask of a file.
LoadDataBaseMask(d, tree) ==
    IF "evtFillWgt" \notin d.cols THEN Call(TRUE, <<>>)
    ELSE Bind(ApplyConditions(OnesMask(d), d, ScalarCuts, 1),
              LAMBDA r : IF r.raised THEN r
                         ELSE Call(FALSE, LoadDataFlagCuts(r.value, d, tree, 1)))

\* Mutant of CustomRegionName: the name carries the 0-based position of enumerate.
CustomRegionZeroBased(i) == <<"CustomRegion", i - 1>>

\* f"CustomRegion{i+1}", i + 1 being the 1-based position i of the model
CustomRegionName(i) == <<"CustomRegion", i>>

\* Mutant of CaughtByFileHandler: the clause catches OSError only.
CaughtOnlyOSError(kind) == kind = "OSError"

\* `except Exception as e` of line 270 (and of line 141): does the clause catch an
\* exception of this class?  Every exception the loop body raises is an Exception.
CaughtByFileHandler(kind) ==
    kind \in {"OSError", "KeyError", "TypeError", "ValueError"}

\* Mutant of CaughtByCutHandler: the clause catches KeyError only.
CaughtOnlyKeyError(kind) == kind = "KeyError"

\* `except Exception as e` of line 257.
CaughtByCutHandler(kind) ==
    kind \in {"OSError", "KeyError", "TypeError", "ValueError"}

\* Mutant of FlagMask: the flag alone, without the baseline mask.
FlagMaskWithoutBaseline(base_mask, d, flag) ==
    [i \in 1..Len(base_mask) |-> d.rows[i][flag] = 1]

\* base_mask & (data[fs_flag] == 1)
FlagMask(base_mask, d, flag) ==
    [i \in 1..Len(base_mask) |-> base_mask[i] /\ d.rows[i][flag] = 1]

\* Mutant of GetOrZeros: the default array holds ones.
GetOrOnes(d, column) ==
    IF column \in d.cols THEN [i \in 1..Len(d.rows) |-> d.rows[i][column]]
    ELSE [i \in 1..Len(d.rows) |-> 1]

\* data.get(column, np.zeros(n_events))
GetOrZeros(d, column) ==
    IF column \in d.cols THEN [i \in 1..Len(d.rows) |-> d.rows[i][column]]
    ELSE [i \in 1..Len(d.rows) |-> 0]

\* The dictionary handed to _parse_simple_cut (lines 245-254).
CutBindings(d) == [name \in BoundNames |-> GetOrZeros(d, ColumnOf(name))]

\* Lines 233-238 and 261-268: what one region of one file contributes.
\* raised: _extract_values raised; stored: an entry is written; d: the entry.
RegionContribution(d, combined_mask, isData) ==
    IF \A i \in 1..Len(combined_mask) : ~combined_mask[i]
    THEN [raised |-> FALSE, stored |-> FALSE, d |-> EmptyDict]
    ELSE Bind(ExtractValues(d, combined_mask, isData),
              LAMBDA extracted_vars :
                 IF extracted_vars.raised
                 THEN [raised |-> TRUE, stored |-> FALSE, d |-> EmptyDict]
                 ELSE Bind(ProcessExtractedData(extracted_vars.value),
                           LAMBDA fd : [raised |-> FALSE,
                                        stored |-> ~fd.none /\ DOMAIN fd.d # {},
                                        d |-> fd.d]))

\* The loop `for i in indices` of load_data (lines 119-131) from row idx on.
RECURSIVE LoadDataRows(_, _, _, _)
LoadDataRows(acc, d, m, idx) ==
    IF idx > Len(d.rows) THEN acc
    ELSE IF ~m[idx] THEN LoadDataRows(acc, d, m, idx + 1)
    ELSE IF GuardOutcome(d, idx) = "raise" THEN [acc EXCEPT !.raised = TRUE]
    ELSE IF GuardOutcome(d, idx) = "fail" THEN LoadDataRows(acc, d, m, idx + 1)
    ELSE Bind([ raised |-> FALSE,
                ms_values |-> Append(acc.ms_values,
                                     d.rows[idx]["rjr_Ms"][1] * ScaleMilli("rjr_Ms")),
                rs_values |-> Append(acc.rs_values,
                                     d.rows[idx]["rjr_Rs"][1] * ScaleMilli("rjr_Rs")),
                weights |-> Append(acc.weights, d.rows[idx]["evtFillWgt"] * Luminosity) ],
              LAMBDA acc1 : LoadDataRows(acc1, d, m, idx + 1))

\* Lines 110-138 of load_data: what one final-state flag of one file contributes.
LoadDataContribution(d, combined_mask) ==
    IF \A i \in 1..Len(combined_mask) : ~combined_mask[i]
    THEN [raised |-> FALSE, stored |-> FALSE, d |-> EmptyDict]
    ELSE Bind(LoadDataRows([raised |-> FALSE, ms_values |-> <<>>, rs_values |-> <<>>,
                            weights |-> <<>>], d, combined_mask, 1),
              LAMBDA acc :
                 IF acc.raised THEN [raised |-> TRUE, stored |-> FALSE, d |-> EmptyDict]
                 ELSE [ raised |-> FALSE,
                        stored |-> acc.ms_values # <<>>,
                        d |-> DictPut(DictPut(DictPut(EmptyDict, VarKey("rjr_Ms"), acc.ms_values),
                                              VarKey("rjr_Rs"), acc.rs_values),
                                      DefaultWeightsKey, acc.weights) ])

\* Mutant of StoreEntry: a path met again adds its values to the entry it has.
StoreEntryExtends(region_map, region, path, fd) ==
    IF path \in DOMAIN region_map[region]
    THEN [region_map EXCEPT ![region][path] =
             [key \in DOMAIN @ |-> IF key \in DOMAIN fd THEN @[key] \o fd[key] ELSE @[key]]]
    ELSE [region_map EXCEPT ![region] = DictPut(@, path, fd)]

\* region_map[region][file_path] = file_data
StoreEntry(region_map, region, path, fd) ==
    [region_map EXCEPT ![region] = DictPut(@, path, fd)]

----------------------------------------------------------------------------
(* Specification Spec: one call of load_data_unified or of load_data on at  *)
(* most MaxFiles files of a catalog.                                        *)

MaxFiles == 2

\* The branches of a complete tree.
AllColumns ==
    { "rjr_Ms", "rjr_Rs", "rjrPTS", "evtFillWgt", "selCMet", "nSelPhotons", "SV_nHadronic",
      "hlt_flags", "Flag_MetFilters", EventFlagA, EventFlagB }
    \cup PerObjectBranches
    \cup { TriggerBranches[k] : k \in 1..Len(TriggerBranches) }

\* A row: filters is the value of both required flags and of the first trigger,
\* sv the row's HadronicSV_mass; the row has no other object.
LoadRow(met, wgt, filters, a, b, npho, nhad, kin, sv) ==
    [ c \in AllColumns |->
        CASE c = "selCMet" -> met
          [] c = "evtFillWgt" -> wgt
          [] c \in {"hlt_flags", "Flag_MetFilters", TriggerBranches[1]} -> filters
          [] c = EventFlagA -> a
          [] c = EventFlagB -> b
          [] c = "nSelPhotons" -> npho
          [] c = "SV_nHadronic" -> nhad
          [] c = "rjr_Ms" -> kin[1]
          [] c = "rjr_Rs" -> kin[2]
          [] c = "rjrPTS" -> kin[3]
          [] c = "HadronicSV_mass" -> sv
          [] c \in PerObjectBranches \ {"HadronicSV_mass"} -> <<>>
          [] OTHER -> 0 ]

RowGoodOne == LoadRow(200, 2, 1, 1, 1, 1, 1, << <<2000>>, <<1>>, <<100>> >>, <<3>>)
RowGoodTwo == LoadRow(200, 3, 1, 1, 0, 0, 2, << <<1000, 7>>, <<2>>, <<100>> >>, <<4, 5>>)
RowNoObject == LoadRow(200, 2, 1, 0, 1, 1, 0, << <<3000>>, <<1>>, <<50>> >>, <<>>)
RowBaselineFail == LoadRow(100, 2, 1, 1, 1, 1, 2, << <<2000>>, <<1>>, <<100>> >>, <<6>>)
RowFilterFail == LoadRow(200, 2, 0, 1, 1, 1, 2, << <<2000>>, <<1>>, <<100>> >>, <<6>>)
RowGuardFail == LoadRow(200, 2, 1, 1, 1, 1, 2, << <<2000>>, <<1>>, <<200>> >>, <<6>>)

\* Rows that differ from a good row in their trigger branches only: no trigger
\* fired; only the third trigger fired.
RowUntriggered == [RowGoodOne EXCEPT ![TriggerBranches[1]] = 0]
RowThirdTrigger == [RowGoodTwo EXCEPT ![TriggerBranches[1]] = 0, ![TriggerBranches[3]] = 1]

Table(cols, rows, nonnumeric) == [cols |-> cols, rows |-> rows, nonnumeric |-> nonnumeric]

\* The files of the catalog, by path.
FileAt(path) ==
    CASE path = "good.root" ->
           [status |-> "ok",
            table |-> Table(AllColumns, <<RowGoodOne, RowBaselineFail, RowGoodTwo>>, {})]
      [] path = "empty.root" ->
           [status |-> "ok",
            table |-> Table(AllColumns, <<RowBaselineFail, RowGuardFail, RowFilterFail>>, {})]
      [] path = "partial.root" ->
           [status |-> "ok",
            table |-> Table(AllColumns \ {EventFlagB, "nSelPhotons", "hlt_flags"},
                            <<RowGoodOne, RowFilterFail>>, {})]
      [] path = "badsv.root" ->
           [status |-> "ok",
            table |-> Table(AllColumns, <<RowNoObject, RowGoodTwo>>, {"HadronicSV_mass"})]
      [] path = "noweight.root" ->
           [status |-> "ok",
            table |-> Table(AllColumns \ {"evtFillWgt"}, <<RowGoodOne>>, {})]
      [] path = "missing.root" ->
           [status |-> "cannot_open", table |-> Table(AllColumns, <<RowGoodOne>>, {})]
      [] path = "notree.root" ->
           [status |-> "no_tree", table |-> Table(AllColumns, <<RowGoodOne>>, {})]
      [] path = "corrupt.root" ->
           [status |-> "read_error", table |-> Table(AllColumns, <<RowGoodOne>>, {})]
      [] path = "noflag.root" ->
           [status |-> "ok",
            table |-> Table(AllColumns \ {EventFlagB},
                            <<RowGoodOne, RowGuardFail, RowGoodTwo>>, {})]
      [] path = "nohlt.root" ->
           [status |-> "ok",
            table |-> Table(AllColumns \ {"hlt_flags"},
                            <<RowGoodOne, RowUntriggered, RowThirdTrigger>>, {})]
      [] path = "nomet.root" ->
           [status |-> "ok",
            table |-> Table(AllColumns \ {"selCMet"}, <<RowGoodOne, RowGoodTwo>>, {})]
      [] path = "nocounts.root" ->
           [status |-> "ok",
            table |-> Table(AllColumns \ {"nSelPhotons", "SV_nHadronic"},
                            <<RowGoodOne, RowBaselineFail, RowGoodTwo>>, {})]
      [] path = "notrigger.root" ->
           [status |-> "ok",
            table |-> Table(AllColumns \ ({"hlt_flags"}
                                          \cup { TriggerBranches[k] : k \in 1..Len(TriggerBranches) }),
                            <<RowGoodOne, RowFilterFail>>, {})]

FilePaths ==
    { "good.root", "empty.root", "partial.root", "badsv.root",
      "noweight.root", "missing.root", "notree.root", "corrupt.root" }

\* The files that lack a flag column or the trigger columns, and a complete one.
ColumnFilePaths ==
    { "good.root", "noflag.root", "nohlt.root", "notrigger.root", "nomet.root", "nocounts.root" }

EventFlagChoices ==
    { <<>>, <<EventFlagA>>, <<EventFlagA, EventFlagB>>, <<EventFlagB, EventFlagA>> }

CutPhotons == cNSelPhotons \o <<"=", "=", "1">>
CutHadronic == cSVnHadronic \o <<">", "=", "2">>
CutMalformed == cUnknown \o <<">", ">", "1">>
CutUnknown == cUnknown \o <<"<", "2">>

\* Expressions that hold for the value 0
CutNoPhotons == cNSelPhotons \o <<"<", "1">>
CutNoHadronic == cSVnHadronic \o <<" ", "=", "=", " ", "0">>

CustomCutChoices ==
    { <<>>, <<CutMalformed, CutPhotons>>, <<CutPhotons, CutUnknown, CutHadronic>>,
      <<CutNoPhotons, CutNoHadronic>> }

\* load_data takes neither custom cuts nor is_data: it weights every row as a
\* simulated one.
LoadCall(paths) ==
    /\ mode = "load"
    /\ pc = "call"
    /\ entry \in {"load_data_unified", "load_data"}
    /\ file_paths \in UNION { [1..n -> paths] : n \in 0..MaxFiles }
    /\ event_flags \in EventFlagChoices
    /\ custom_cuts \in (IF entry = "load_data" THEN {<<>>} ELSE CustomCutChoices)
    /\ is_data \in (IF entry = "load_data" THEN {FALSE} ELSE BOOLEAN)
    /\ fidx = 0 /\ ridx = 0
    /\ open_files = {}
    /\ event_data = EmptyDict
    /\ custom_data = EmptyDict
    /\ data = NoData
    /\ mask = <<>>
    /\ extracted = Call(FALSE, EmptyDict)
    /\ file_data = NoneValue
    /\ MaskIdle /\ ParseIdle /\ MainIdle /\ CombineIdle /\ LaterIdle

LoadInit == LoadCall(FilePaths)

ColumnsInit == LoadCall(ColumnFilePaths)

loadFixed == <<mode, entry, file_paths, event_flags, custom_cuts, is_data, extracted,
               file_data, maskVars, parseVars, mainVars, combineVars, laterVars>>

\* Mutant of WithExit: leaving the `with` block does not close the handle.
WithExitLeaks(handles, k) == handles

\* Leaving `with uproot.open(file_path) as f` by any path closes the handle of f.
WithExit(handles, k) == handles \ {k}

\* The exception leaves the `with` block (the handle is closed) and reaches the
\* handler of line 270 (line 141 in load_data), which prints and lets the file loop
\* go on; an exception the clause does not catch leaves the call.
FileRaises(kind) ==
    /\ open_files' = WithExit(open_files, fidx)
    /\ data' = NoData
    /\ mask' = <<>>
    /\ ridx' = 0
    /\ IF CaughtByFileHandler(kind)
       THEN pc' = "files" /\ fidx' = fidx + 1
       ELSE pc' = "raised" /\ fidx' = fidx

\* Lines 179-199 (52-70 in load_data): the summary is updated and the result maps
\* are created; event_data stands for all_data in load_data.
BeginLoad ==
    /\ mode = "load" /\ pc = "call"
    /\ event_data' = [flag \in { event_flags[k] : k \in 1..Len(event_flags) } |-> EmptyDict]
    /\ custom_data' = [name \in { CustomRegionName(i) : i \in 1..Len(custom_cuts) } |-> EmptyDict]
    /\ fidx' = 1
    /\ pc' = "files"
    /\ UNCHANGED <<loadFixed, data, mask, ridx, open_files>>

\* with uproot.open(file_path) as f
OpenFile ==
    /\ mode = "load" /\ pc = "files" /\ fidx <= Len(file_paths)
    /\ IF FileAt(file_paths[fidx]).status = "cannot_open"
       THEN FileRaises("OSError")
       ELSE /\ open_files' = open_files \cup {fidx}
            /\ pc' = "tree"
            /\ UNCHANGED <<fidx, ridx, data, mask>>
    /\ UNCHANGED <<loadFixed, event_data, custom_data>>

\* if self.tree_name not in f: print a warning; continue
CheckTree ==
    /\ mode = "load" /\ pc = "tree"
    /\ IF FileAt(file_paths[fidx]).status = "no_tree"
       THEN /\ open_files' = WithExit(open_files, fidx)
            /\ fidx' = fidx + 1
            /\ pc' = "files"
       ELSE /\ pc' = "read"
            /\ UNCHANGED <<open_files, fidx>>
    /\ UNCHANGED <<loadFixed, ridx, data, mask, event_data, custom_data>>

\* Lines 209-224: the available branches are read and the baseline mask is built.
ReadArrays ==
    /\ mode = "load" /\ entry = "load_data_unified" /\ pc = "read"
    /\ \E file \in {FileAt(file_paths[fidx])} :
       IF file.status = "read_error" THEN FileRaises("OSError")
       ELSE \E d \in {ReadTable(file.table, event_flags)} :
            \E base_mask \in {BaseMask(d)} :
               IF base_mask.raised THEN FileRaises("KeyError")
               ELSE /\ data' = d
                    /\ mask' = base_mask.value
                    /\ ridx' = 1
                    /\ pc' = "flags"
                    /\ UNCHANGED <<fidx, open_files>>
    /\ UNCHANGED <<loadFixed, event_data, custom_data>>

\* One pass of `for fs_flag in event_flags` (lines 227-238).
ProcessEventFlag ==
    /\ mode = "load" /\ entry = "load_data_unified"
    /\ pc = "flags" /\ ridx <= Len(event_flags)
    /\ LET fs_flag == event_flags[ridx] IN
       IF fs_flag \notin data.cols
       THEN /\ ridx' = ridx + 1
            /\ UNCHANGED <<pc, fidx, open_files, data, mask, event_data>>
       ELSE \E c \in {RegionContribution(data, FlagMask(mask, data, fs_flag), is_data)} :
            IF c.raised THEN FileRaises("TypeError") /\ UNCHANGED event_data
            ELSE /\ event_data' = IF c.stored
                                  THEN StoreEntry(event_data, fs_flag, file_paths[fidx], c.d)
                                  ELSE event_data
                 /\ ridx' = ridx + 1
                 /\ UNCHANGED <<pc, fidx, open_files, data, mask>>
    /\ UNCHANGED <<loadFixed, custom_data>>

\* The event-flag loop is over; the custom-cut loop starts.
BeginCustomCuts ==
    /\ mode = "load" /\ entry = "load_data_unified"
    /\ pc = "flags" /\ ridx > Len(event_flags)
    /\ pc' = "cuts"
    /\ ridx' = 1
    /\ UNCHANGED <<loadFixed, fidx, open_files, data, mask, event_data, custom_data>>

\* One pass of `for i, custom_cut in enumerate(custom_cuts)` (lines 241-268).
ProcessCustomCut ==
    /\ mode = "load" /\ entry = "load_data_unified"
    /\ pc = "cuts" /\ ridx <= Len(custom_cuts)
    /\ \E custom_mask \in {ParseSimpleCut(custom_cuts[ridx], CutBindings(data))} :
       IF custom_mask.status = "error"
       THEN IF CaughtByCutHandler("ValueError")
            THEN /\ ridx' = ridx + 1
                 /\ UNCHANGED <<pc, fidx, open_files, data, mask, custom_data>>
            ELSE FileRaises("ValueError") /\ UNCHANGED custom_data
       ELSE \E c \in {RegionContribution(
                         data, [i \in 1..Len(mask) |-> mask[i] /\ custom_mask.mask[i]],
                         is_data)} :
            IF c.raised THEN FileRaises("TypeError") /\ UNCHANGED custom_data
            ELSE /\ custom_data' =
                       IF c.stored
                       THEN StoreEntry(custom_data, CustomRegionName(ridx),
                                       file_paths[fidx], c.d)
                       ELSE custom_data
                 /\ ridx' = ridx + 1
                 /\ UNCHANGED <<pc, fidx, open_files, data, mask>>
    /\ UNCHANGED <<loadFixed, event_data>>

\* The `with` block ends normally: the handle is closed, the next file follows.
CloseFile ==
    /\ mode = "load" /\ entry = "load_data_unified"
    /\ pc = "cuts" /\ ridx > Len(custom_cuts)
    /\ open_files' = WithExit(open_files, fidx)
    /\ data' = NoData
    /\ mask' = <<>>
    /\ ridx' = 0
    /\ fidx' = fidx + 1
    /\ pc' = "files"
    /\ UNCHANGED <<loadFixed, event_data, custom_data>>

\* load_data, lines 80-101: every branch of the list is read and the baseline mask
\* is built.
LoadDataReadArrays ==
    /\ mode = "load" /\ entry = "load_data" /\ pc = "read"
    /\ \E file \in {FileAt(file_paths[fidx])} :
       IF file.status = "read_error" THEN FileRaises("OSError")
       ELSE \E d \in {LoadDataRead(file.table, event_flags)} :
            IF d.raised THEN FileRaises("KeyError")
            ELSE \E base_mask \in {LoadDataBaseMask(d.value, file.table)} :
                 IF base_mask.raised THEN FileRaises("KeyError")
                 ELSE /\ data' = d.value
                      /\ mask' = base_mask.value
                      /\ ridx' = 1
                      /\ pc' = "flags"
                      /\ UNCHANGED <<fidx, open_files>>
    /\ UNCHANGED <<loadFixed, event_data, custom_data>>

\* load_data, one pass of `for fs_flag in final_state_flags` (lines 103-139).
LoadDataProcessFlag ==
    /\ mode = "load" /\ entry = "load_data"
    /\ pc = "flags" /\ ridx <= Len(event_flags)
    /\ LET fs_flag == event_flags[ridx] IN
       IF fs_flag \notin data.cols
       THEN /\ ridx' = ridx + 1
            /\ UNCHANGED <<pc, fidx, open_files, data, mask, event_data>>
       ELSE \E c \in {LoadDataContribution(data, FlagMask(mask, data, fs_flag))} :
            IF c.raised THEN FileRaises("KeyError") /\ UNCHANGED event_data
            ELSE /\ event_data' = IF c.stored
                                  THEN StoreEntry(event_data, fs_flag, file_paths[fidx], c.d)
                                  ELSE event_data
                 /\ ridx' = ridx + 1
                 /\ UNCHANGED <<pc, fidx, open_files, data, mask>>
    /\ UNCHANGED <<loadFixed, custom_data>>

\* load_data: the `with` block ends normally after the flag loop.
LoadDataCloseFile ==
    /\ mode = "load" /\ entry = "load_data"
    /\ pc = "flags" /\ ridx > Len(event_flags)
    /\ open_files' = WithExit(open_files, fidx)
    /\ data' = NoData
    /\ mask' = <<>>
    /\ ridx' = 0
    /\ fidx' = fidx + 1
    /\ pc' = "files"
    /\ UNCHANGED <<loadFixed, event_data, custom_data>>

\* return event_data, custom_data (return all_data in load_data)
ReturnMaps ==
    /\ mode = "load" /\ pc = "files" /\ fidx > Len(file_paths)
    /\ pc' = "done"
    /\ UNCHANGED <<loadFixed, fidx, ridx, open_files, data, mask, event_data, custom_data>>

LoadNext ==
    \/ BeginLoad
    \/ OpenFile
    \/ CheckTree
    \/ ReadArrays
    \/ ProcessEventFlag
    \/ BeginCustomCuts
    \/ ProcessCustomCut
    \/ CloseFile
    \/ LoadDataReadArrays
    \/ LoadDataProcessFlag
    \/ LoadDataCloseFile
    \/ ReturnMaps

Spec == LoadInit /\ [][LoadNext]_vars

\* Specification SpecColumns: the same call on files that lack columns.
SpecColumns == ColumnsInit /\ [][LoadNext]_vars

----------------------------------------------------------------------------
(* Properties of load_data_unified and load_data (checked under Spec) *)

\* The regions of a call in processing order: the event flags, then the custom cuts.
Regions ==
    [k \in 1..Len(event_flags) |-> [kind |-> "flag", index |-> k]]
    \o [k \in 1..Len(custom_cuts) |-> [kind |-> "cut", index |-> k]]

\* The arrays the running entry point reads from the file.
TableOf(path) ==
    IF entry = "load_data" THEN LoadDataRead(FileAt(path).table, event_flags).value
    ELSE ReadTable(FileAt(path).table, event_flags)

\* The baseline mask the running entry point builds for the file.
BaseMaskOf(path) ==
    IF entry = "load_data" THEN LoadDataBaseMask(TableOf(path), FileAt(path).table)
    ELSE BaseMask(TableOf(path))

\* The file cannot be opened, lacks the tree, or raises while it is read.
FileFails(path) ==
    \/ FileAt(path).status # "ok"
    \/ entry = "load_data" /\ LoadDataRead(FileAt(path).table, event_flags).raised
    \/ BaseMaskOf(path).raised

\* Evaluating the custom-cut expression fails.
CutFails(path, i) == ParseSimpleCut(custom_cuts[i], CutBindings(TableOf(path))).status = "error"

\* The region is not available in the file: its flag column is absent or its
\* expression fails.
RegionSkipped(path, r) ==
    IF r.kind = "flag" THEN event_flags[r.index] \notin TableOf(path).cols
    ELSE CutFails(path, r.index)

\* Baseline mask AND region mask of a file, for a region that is not skipped.
SelectionMask(path, r) ==
    LET d == TableOf(path)
        base_mask == BaseMaskOf(path).value
    IN IF r.kind = "flag" THEN FlagMask(base_mask, d, event_flags[r.index])
       ELSE LET custom_mask == ParseSimpleCut(custom_cuts[r.index], CutBindings(d)).mask
            IN [i \in 1..Len(base_mask) |-> base_mask[i] /\ custom_mask[i]]

\* What the (file, region) pair contributes when it is processed on its own.
PairAlone(path, r) ==
    IF RegionSkipped(path, r)
    THEN [raised |-> FALSE, stored |-> FALSE, d |-> EmptyDict]
    ELSE IF entry = "load_data"
         THEN LoadDataContribution(TableOf(path), SelectionMask(path, r))
         ELSE RegionContribution(TableOf(path), SelectionMask(path, r), is_data)

\* The entries the result maps hold for the pair.
RegionMapOf(r) ==
    IF r.kind = "flag" THEN event_data[event_flags[r.index]]
    ELSE custom_data[CustomRegionName(r.index)]

HasEntry(path, r) == path \in DOMAIN RegionMapOf(r)

\* The maps hold for the pair exactly what the pair contributes on its own.
HoldsOwnContribution(path, r) ==
    Bind(PairAlone(path, r),
         LAMBDA own : /\ HasEntry(path, r) <=> own.stored
                      /\ HasEntry(path, r) => RegionMapOf(r)[path] = own.d)

\* Extraction raises for one of the first k regions of the file.
ExtractionRaisedUpTo(path, k) ==
    \E j \in 1..k : PairAlone(path, Regions[j]).raised

PathsGiven == { file_paths[k] : k \in 1..Len(file_paths) }

LoadDone == mode = "load" /\ pc = "done"

\* C8: when a custom-cut expression fails for a file, nothing is stored for that
\* (custom region, file) pair, and every other region of every file holds what the
\* run holds without that expression: its own contribution, or nothing when the
\* extraction of the file raised before it (which no failing expression causes).
FailingCutSkipsOnlyItself ==
    (LoadDone /\ \E i \in 1..Len(custom_cuts) : \E path \in PathsGiven :
                    ~FileFails(path) /\ CutFails(path, i)) =>
        \A path \in PathsGiven : ~FileFails(path) =>
            \A k \in 1..Len(Regions) :
                IF Regions[k].kind = "cut" /\ CutFails(path, Regions[k].index)
                THEN ~HasEntry(path, Regions[k])
                ELSE IF ExtractionRaisedUpTo(path, k)
                     THEN ~HasEntry(path, Regions[k])
                     ELSE HoldsOwnContribution(path, Regions[k])

\* Witness of C8: the first expression fails, the second one is stored for a file,
\* and a later file is stored as well.
WitnessFailingCut ==
    /\ LoadDone
    /\ custom_cuts = <<CutMalformed, CutPhotons>>
    /\ event_flags = <<EventFlagA>>
    /\ file_paths = <<"good.root", "partial.root">>
    /\ DOMAIN custom_data[CustomRegionName(1)] = {}
    /\ DOMAIN custom_data[CustomRegionName(2)] = {"good.root"}
    /\ DOMAIN event_data[EventFlagA] = {"good.root", "partial.root"}

\* C9: when extraction raises for one (file, region) pair, every sibling region of
\* the file, before or after it, holds its own contribution.
ExtractionFailureSkipsOnlyItsPair ==
    LoadDone =>
        \A path \in PathsGiven : ~FileFails(path) =>
            \A k \in 1..Len(Regions) :
                ~PairAlone(path, Regions[k]).raised => HoldsOwnContribution(path, Regions[k])

----------------------------------------------------------------------------
(* Files that lack columns (checked under SpecColumns) *)

\* The columns of the file among those the running entry point asks for.
AvailableTable(path) ==
    [FileAt(path).table EXCEPT
        !.cols = @ \cap (IF entry = "load_data" THEN LoadDataBranches(event_flags)
                         ELSE Branches(event_flags))]

\* Row i of the table passes the scalar cuts and every required flag the table has.
PassesBaselineCuts(table, i) ==
    /\ table.rows[i]["selCMet"] > MET_CUT
    /\ table.rows[i]["evtFillWgt"] < EVT_WGT_CUT
    /\ \A k \in 1..Len(SelectionManagerFlags) :
          SelectionManagerFlags[k] \in table.cols => table.rows[i][SelectionManagerFlags[k]] = 1

\* What the flag region contributes from the columns the file has: the rows that
\* pass the baseline cuts and carry the flag.
FlagContribution(path, flag) ==
    LET table == AvailableTable(path)
        selected_rows == [i \in 1..Len(table.rows) |->
                        PassesBaselineCuts(table, i) /\ table.rows[i][flag] = 1]
    IN IF entry = "load_data" THEN LoadDataContribution(table, selected_rows)
       ELSE RegionContribution(table, selected_rows, is_data)

\* The file opens, has the tree and every column the loaders ask for except, at
\* most, event-flag columns.
LacksOnlyFlagColumns(path) ==
    /\ FileAt(path).status = "ok"
    /\ AllColumns \ {EventFlagA, EventFlagB} \subseteq FileAt(path).table.cols
    /\ FileAt(path).table.nonnumeric = {}

FlagsGiven == { event_flags[k] : k \in 1..Len(event_flags) }

\* C11: the call does not raise and, for a file that lacks the column of a
\* requested flag, no entry is stored for that flag while every requested flag
\* whose column the file has holds the file's contribution.
AbsentFlagSkipsOnlyItsPair ==
    mode = "load" =>
        /\ pc # "raised"
        /\ LoadDone =>
              \A path \in PathsGiven :
                 (LacksOnlyFlagColumns(path)
                    /\ \E flag \in FlagsGiven : flag \notin FileAt(path).table.cols) =>
                       \A flag \in FlagsGiven :
                          IF flag \notin FileAt(path).table.cols
                          THEN path \notin DOMAIN event_data[flag]
                          ELSE Bind(FlagContribution(path, flag),
                                    LAMBDA own :
                                       /\ path \in DOMAIN event_data[flag] <=> own.stored
                                       /\ own.stored => event_data[flag][path] = own.d)

----------------------------------------------------------------------------
(* Keys of the result maps (checked under Spec) *)

\* C12: when load_data_unified has returned, the custom map has exactly the keys
\* CustomRegion1..CustomRegionN of the N expressions given, the flag map exactly
\* the flag strings, and whatever is stored under CustomRegion{i} (under a flag)
\* for a file is what the i-th expression (that flag) selects from that file,
\* also after expressions that fail or select nothing.
RegionsKeyedByPosition ==
    (LoadDone /\ entry = "load_data_unified") =>
        /\ DOMAIN custom_data = { <<"CustomRegion", i>> : i \in 1..Len(custom_cuts) }
        /\ DOMAIN event_data = FlagsGiven
        /\ \A i \in 1..Len(custom_cuts) :
              \A path \in DOMAIN custom_data[<<"CustomRegion", i>>] :
                 /\ path \in PathsGiven
                 /\ ~CutFails(path, i)
                 /\ Bind(PairAlone(path, [kind |-> "cut", index |-> i]),
                         LAMBDA own : own.stored
                                      /\ custom_data[<<"CustomRegion", i>>][path] = own.d)
        /\ \A k \in 1..Len(event_flags) :
              \A path \in DOMAIN event_data[event_flags[k]] :
                 Bind(PairAlone(path, [kind |-> "flag", index |-> k]),
                      LAMBDA own : own.stored /\ event_data[event_flags[k]][path] = own.d)

\* Witness of C12: of three expressions the first selects nothing from the first
\* file, the second fails for every file, and the third is stored under
\* CustomRegion3 with an entry that differs from the one under CustomRegion1.
WitnessRegionsKeyed ==
    /\ LoadDone
    /\ custom_cuts = <<CutPhotons, CutUnknown, CutHadronic>>
    /\ file_paths = <<"partial.root", "good.root">>
    /\ DOMAIN custom_data[<<"CustomRegion", 1>>] = {"good.root"}
    /\ DOMAIN custom_data[<<"CustomRegion", 2>>] = {}
    /\ DOMAIN custom_data[<<"CustomRegion", 3>>] = {"good.root"}
    /\ custom_data[<<"CustomRegion", 1>>]["good.root"]
          # custom_data[<<"CustomRegion", 3>>]["good.root"]

----------------------------------------------------------------------------
(* Specification SpecPrompt: prompt_unblind_warning (src/main.py) reading   *)
(* any sequence of at most MaxKeys key presses from standard input.  A key  *)
(* press puts the characters the terminal sends for it on the input; the    *)
(* input ends after the last key press.                                     *)
(***************************************************************************)
MaxKeys == 3

ESC == "\\x1b"
ETX == "\\x03"
KeyChoices == { "Up", "Down", "Enter", "Ctrl+C", "Other", "Esc" }

\* The characters a key press sends
CharsOf(key) ==
    CASE key = "Up" -> <<ESC, "[", "A">>
      [] key = "Down" -> <<ESC, "[", "B">>
      [] key = "Enter" -> <<"\r">>
      [] key = "Ctrl+C" -> <<ETX>>
      [] key = "Esc" -> <<ESC>>
      [] OTHER -> <<"x">>

RECURSIVE CharsOfKeys(_)
CharsOfKeys(ks) == IF ks = <<>> THEN <<>> ELSE CharsOf(Head(ks)) \o CharsOfKeys(Tail(ks))

options == <<"Continue", "Abort">>

Max(a, b) == IF a >= b THEN a ELSE b
Min(a, b) == IF a <= b THEN a ELSE b

\* sys.stdin.read(n) on input s: at most n characters, fewer at the end of input
StdinRead(s, n) ==
    [ch |-> SubSeq(s.pending, 1, Min(n, Len(s.pending))),
     stdin |-> [s EXCEPT !.pending = SubSeq(@, Min(n, Len(@)) + 1, Len(@)),
                         !.eof = @ \/ Len(s.pending) < n]]

\* get_char(): termios.tcgetattr raises termios.error when standard input is
\* not a terminal; else one character, and two more after an escape character.
get_char(s) ==
    IF ~s.isatty THEN [raised |-> TRUE, ch |-> <<>>, stdin |-> s]
    ELSE Bind(StdinRead(s, 1),
              LAMBDA first :
                 IF first.ch = <<ESC>>
                 THEN Bind(StdinRead(first.stdin, 2),
                           LAMBDA more : [raised |-> FALSE, ch |-> first.ch \o more.ch,
                                          stdin |-> more.stdin])
                 ELSE [raised |-> FALSE, ch |-> first.ch, stdin |-> first.stdin])

Returned(value) == [kind |-> "returned", value |-> value]
Propagated == [kind |-> "raised", value |-> FALSE]

PromptInit ==
    /\ mode = "prompt"
    /\ pc = "loop"
    /\ \E ks \in UNION { [1..n -> KeyChoices] : n \in 0..MaxKeys }, tty \in BOOLEAN :
         stdin = [isatty |-> tty, keys |-> ks, pending |-> CharsOfKeys(ks), eof |-> FALSE]
    /\ selected = 1
    /\ prompt_result = NotAsked
    /\ data = NoData
    /\ mask = <<>>
    /\ ExtractIdle /\ MaskIdle /\ ParseIdle /\ LoaderIdle /\ MainIdle /\ CombineIdle
    /\ SummaryIdle /\ LabelIdle /\ EpsIdle

promptFixed == <<mode, data, mask, extractVars, maskVars, parseVars, loaderVars, mainVars,
                 combineVars, summaryVars, labelVars, epsVars>>

\* One round of `while True`: char = get_char() and the branch taken on it.
\* KeyboardInterrupt is caught by the handler of line 148; the error of
\* get_char is not.
PromptRound(s, sel) ==
    Bind(get_char(s),
         LAMBDA got :
            IF got.raised
            THEN [stdin |-> got.stdin, selected |-> sel, result |-> Propagated, pc |-> "raised"]
            ELSE IF got.ch = <<"\r">> \/ got.ch = <<"\n">>
            THEN [stdin |-> got.stdin, selected |-> sel, result |-> Returned(sel = 0),
                  pc |-> "returned"]
            ELSE IF got.ch = <<ESC, "[", "A">>
            THEN [stdin |-> got.stdin, selected |-> Max(0, sel - 1), result |-> NotAsked,
                  pc |-> "loop"]
            ELSE IF got.ch = <<ESC, "[", "B">>
            THEN [stdin |-> got.stdin, selected |-> Min(Len(options) - 1, sel + 1),
                  result |-> NotAsked, pc |-> "loop"]
            ELSE IF got.ch = <<ETX>>
            THEN [stdin |-> got.stdin, selected |-> sel, result |-> Returned(FALSE),
                  pc |-> "returned"]
            ELSE [stdin |-> got.stdin, selected |-> sel, result |-> NotAsked, pc |-> "loop"])

PromptLoop ==
    /\ mode = "prompt" /\ pc = "loop"
    /\ \E round \in {PromptRound(stdin, selected)} :
         /\ stdin' = round.stdin
         /\ selected' = round.selected
         /\ prompt_result' = round.result
         /\ pc' = round.pc
    /\ UNCHANGED promptFixed

\* The whole call: the rounds up to the return or the exception; a call that
\* reads past the end of the input goes round without end.
NeverReturns == [kind |-> "never_returns", value |-> FALSE]
RECURSIVE PromptRounds(_, _)
PromptRounds(s, sel) ==
    Bind(PromptRound(s, sel),
         LAMBDA round :
            IF round.pc # "loop" THEN round.result
            ELSE IF round.stdin.eof THEN NeverReturns
            ELSE PromptRounds(round.stdin, round.selected))

Terminal(tty, ks) == [isatty |-> tty, keys |-> ks, pending |-> CharsOfKeys(ks), eof |-> FALSE]

\* prompt_unblind_warning()
prompt_unblind_warning(s) == PromptRounds(s, 1)

PromptNext == PromptLoop

SpecPrompt == PromptInit /\ [][PromptNext]_vars

\* What the key presses say: the option highlighted after the first k presses,
\* the first press that decides, and the answer it gives.
RECURSIVE Highlighted(_, _)
Highlighted(ks, k) ==
    IF k = 0 THEN 1
    ELSE IF ks[k] = "Up" THEN Max(0, Highlighted(ks, k - 1) - 1)
    ELSE IF ks[k] = "Down" THEN Min(1, Highlighted(ks, k - 1) + 1)
    ELSE Highlighted(ks, k - 1)

Decisive(ks) == { k \in 1..Len(ks) : ks[k] \in {"Enter", "Ctrl+C"} }

ExpectedAnswer(ks) ==
    /\ Decisive(ks) # {}
    /\ \E d \in Decisive(ks) :
         /\ \A e \in Decisive(ks) : d <= e
         /\ ks[d] = "Enter"
         /\ Highlighted(ks, d - 1) = 0

\* C25: for any sequence of key presses the highlighted option stays within the
\* two options, and once a key decided or the input ended the call has returned:
\* True when Enter was pressed with Continue highlighted, False otherwise
\* (Enter on Abort, Ctrl+C, end of input).
PromptAnswersTheKeys ==
    mode = "prompt" =>
      /\ selected \in {0, 1}
      /\ (pc # "loop" \/ stdin.eof) => prompt_result = Returned(ExpectedAnswer(stdin.keys))

\* The part that holds: on a terminal, for key presses other than Esc, a call that
\* returned gave the answer of the keys, and the highlighted option stays in range.
NoEscKey == \A k \in 1..Len(stdin.keys) : stdin.keys[k] # "Esc"
ReturnedAnswerFollowsTheKeys ==
    (mode = "prompt" /\ NoEscKey) =>
      /\ selected \in {0, 1}
      /\ pc # "loop" /\ stdin.isatty => prompt_result = Returned(ExpectedAnswer(stdin.keys))
      /\ (stdin.isatty /\ Decisive(stdin.keys) # {} /\ stdin.pending = <<>>) => pc = "returned"

(***************************************************************************)
(* main: the regions handed to the plotting code (main.py)                 *)
(***************************************************************************)

MaxFlags == 3

cPass == <<"p", "a", "s", "s">>
cSR == <<"S", "R">>
ArgSignalRegion == cPass \o <<"N", "H", "a", "d", "1">> \o cSR
ArgControlRegion == cPass \o <<"N", "H", "a", "d", "1", "C", "R">>

\* --flags values the command line is given
ArgFlagChoices == { ArgSignalRegion, ArgControlRegion, CutPhotons, CutHadronic }

\* str.startswith('pass')
is_event_flag(flag_string) == StartsAt(flag_string, 1, cPass)

\* 'SR' in flag_string; a custom region's name is CustomRegion<i>, which has no "SR"
is_signal_region(flag_string) ==
    /\ flag_string[1] # "CustomRegion"
    /\ \E i \in 1..Len(flag_string) : StartsAt(flag_string, i, cSR)

\* [x for x in xs if keep(x)]
Filter(xs, keep(_)) == SelectSeq(xs, keep)

\* The keys of {k: ... for k in ks}, in insertion order: the first occurrence of each.
RECURSIVE FirstOccurrences(_)
FirstOccurrences(ks) ==
    IF ks = <<>> THEN <<>>
    ELSE Bind(FirstOccurrences(SubSeq(ks, 1, Len(ks) - 1)), LAMBDA front :
             IF \E i \in 1..Len(front) : front[i] = ks[Len(ks)]
             THEN front
             ELSE Append(front, ks[Len(ks)]))

\* A dictionary in insertion order is a sequence of [key, value].
KeysList(od) == [i \in 1..Len(od) |-> od[i].key]
HasKeyOrdered(od, k) == \E i \in 1..Len(od) : od[i].key = k

\* The per-file map of one region.  `sample` and `region` record which load call
\* stored it and under which key; `files` are the paths that contributed.
RegionMap(sample, region, files) == [sample |-> sample, region |-> region, files |-> files]

\* The {} that dict.get(key, {}) falls back to
NoRegionMap == RegionMap("", <<>>, {})

\* od.get(k, {})
GetOrEmpty(od, k) ==
    IF HasKeyOrdered(od, k)
    THEN od[CHOOSE i \in 1..Len(od) : od[i].key = k].value
    ELSE NoRegionMap

\* list.index(x), 0-based
ListIndex(xs, x) == (CHOOSE i \in 1..Len(xs) : xs[i] = x /\ \A j \in 1..(i - 1) : xs[j] # x) - 1

\* Which regions of a sample end up with at least one file
FillChoices == { "all", "none", "odd" }
Filled(fill, position) ==
    CASE fill = "all" -> TRUE
      [] fill = "none" -> FALSE
      [] fill = "odd" -> position % 2 = 1

\* The two maps load_data_unified returns for one sample: keys in the order the
\* dictionaries were created with, values as the files filled them.
UnifiedMaps(sample, flags, cuts, fill) ==
    Bind(FirstOccurrences(flags), LAMBDA fkeys :
      [event |-> [i \in 1..Len(fkeys) |->
                    [key |-> fkeys[i],
                     value |-> RegionMap(sample, fkeys[i],
                                         IF Filled(fill, i) THEN {"file.root"} ELSE {})]],
       custom |-> [i \in 1..Len(cuts) |->
                    [key |-> CustomRegionName(i),
                     value |-> RegionMap(sample, CustomRegionName(i),
                                         IF Filled(fill, i) THEN {"file.root"} ELSE {})]]])

NoMaps == [event |-> <<>>, custom |-> <<>>]

\* custom_cuts[i] if i < len(custom_cuts) else "Unknown", i counted from 0
OriginalCutShifted(cuts, i) == IF i + 1 < Len(cuts) THEN cuts[i + 2] ELSE <<"Unknown">>

OriginalCut(cuts, i) == IF i < Len(cuts) THEN cuts[i + 1] ELSE <<"Unknown">>

MainEventFlags == Filter(args.flags, is_event_flag)
MainCustomCuts == Filter(args.flags, LAMBDA flag : ~is_event_flag(flag))

MainInit ==
    /\ mode = "main"
    /\ pc = "start"
    /\ args \in [flags : UNION { [1..n -> ArgFlagChoices] : n \in 0..MaxFlags },
                 data : BOOLEAN, ratio : BOOLEAN, unblind : BOOLEAN]
    /\ loaded = EmptyDict
    /\ all_flags_and_cuts = <<>>
    /\ item_idx = 0
    /\ plotted = <<>>
    /\ data = NoData
    /\ mask = <<>>
    /\ ExtractIdle /\ MaskIdle /\ ParseIdle /\ LoaderIdle /\ CombineIdle /\ LaterIdle

mainFixed == <<mode, data, mask, extractVars, maskVars, parseVars, loaderVars,
               combineVars, summaryVars, labelVars, epsVars, stdin, selected, args>>

\* What the user may type at the prompt
MainKeyChoices == { <<>>, <<"Enter">>, <<"Up", "Enter">>, <<"Up", "Down", "Enter">>,
                    <<"Ctrl+C">> }

\* if args.unblind and data_files: if not prompt_unblind_warning(): return
CheckUnblind ==
    /\ mode = "main" /\ pc = "start"
    /\ IF args.unblind /\ args.data
       THEN \E tty \in BOOLEAN, ks \in MainKeyChoices :
              \E answer \in {prompt_unblind_warning(Terminal(tty, ks))} :
                 /\ prompt_result' = answer
                 /\ pc' = IF answer.kind = "raised" THEN "raised"
                          ELSE IF answer.kind = "never_returns" THEN "prompting"
                          ELSE IF answer.value THEN "load" ELSE "exited"
       ELSE /\ pc' = "load"
            /\ UNCHANGED prompt_result
    /\ UNCHANGED <<mainFixed, loaded, all_flags_and_cuts, item_idx, plotted>>

\* The three load_data_unified calls; data files are loaded only when given.
LoadMaps ==
    /\ mode = "main" /\ pc = "load"
    /\ \E sig_fill \in FillChoices, bg_fill \in FillChoices, data_fill \in FillChoices :
         loaded' =
           [sig |-> UnifiedMaps("signal", MainEventFlags, MainCustomCuts, sig_fill),
            bg |-> UnifiedMaps("background", MainEventFlags, MainCustomCuts, bg_fill),
            data |-> IF args.data
                     THEN UnifiedMaps("data", MainEventFlags, MainCustomCuts, data_fill)
                     ELSE NoMaps]
    /\ pc' = "flags"
    /\ UNCHANGED <<mainFixed, prompt_result, all_flags_and_cuts, item_idx, plotted>>

\* for flag in event_flags: all_flags_and_cuts.append({...})
AddEventFlags ==
    /\ mode = "main" /\ pc = "flags"
    /\ all_flags_and_cuts' =
         [i \in 1..Len(MainEventFlags) |->
            [name |-> MainEventFlags[i],
             data_source |-> "event_flag",
             sig_data |-> GetOrEmpty(loaded.sig.event, MainEventFlags[i]),
             bg_data |-> GetOrEmpty(loaded.bg.event, MainEventFlags[i]),
             show_region_label |-> TRUE,
             original_cut |-> <<>>]]
    /\ pc' = "cuts"
    /\ UNCHANGED <<mainFixed, prompt_result, loaded, item_idx, plotted>>

\* for i, custom_region in enumerate(custom_sig_data_map.keys()): ...append({...})
AddCustomCuts ==
    /\ mode = "main" /\ pc = "cuts"
    /\ \E keys \in {KeysList(loaded.sig.custom)} :
         all_flags_and_cuts' = all_flags_and_cuts \o
           [k \in 1..Len(keys) |->
              [name |-> keys[k],
               data_source |-> "custom_cut",
               sig_data |-> GetOrEmpty(loaded.sig.custom, keys[k]),
               bg_data |-> GetOrEmpty(loaded.bg.custom, keys[k]),
               show_region_label |-> FALSE,
               original_cut |-> OriginalCut(MainCustomCuts, k - 1)]]
    /\ item_idx' = 1
    /\ pc' = "items"
    /\ UNCHANGED <<mainFixed, prompt_result, loaded, plotted>>

\* The data map of the item being plotted
CurrentDataData(item) ==
    IF item.data_source = "event_flag"
    THEN GetOrEmpty(loaded.data.event, item.name)
    ELSE IF HasKeyOrdered(loaded.sig.custom, item.name)
         THEN Bind(ListIndex(KeysList(loaded.sig.custom), item.name), LAMBDA custom_region_idx :
                GetOrEmpty(loaded.data.custom,
                           KeysList(loaded.data.custom)[custom_region_idx + 1]))
         ELSE NoRegionMap

BlindDataSignalOnly(item) ==
    IF args.unblind THEN FALSE ELSE is_signal_region(item.name)

BlindData(item) ==
    IF args.unblind THEN FALSE
    ELSE is_signal_region(item.name) \/ item.data_source = "custom_cut"

\* create_data_mc_comparison: is a data histogram made of the data collection?
\* (`if not blind_data and data_collection`, then `if combined_data`)
DataHistogram(blind_data, data_collection) ==
    ~blind_data /\ data_collection.files # {}

\* One pass of `for item in all_flags_and_cuts` over an item without any events
SkipItem ==
    /\ mode = "main" /\ pc = "items"
    /\ item_idx <= Len(all_flags_and_cuts)
    /\ all_flags_and_cuts[item_idx].sig_data.files = {}
    /\ all_flags_and_cuts[item_idx].bg_data.files = {}
    /\ item_idx' = item_idx + 1
    /\ UNCHANGED <<mainFixed, prompt_result, pc, loaded, all_flags_and_cuts, plotted>>

\* One pass over an item with events: the plots are made, the data/MC plot with
\* the data map found for the item
PlotItem ==
    /\ mode = "main" /\ pc = "items"
    /\ item_idx <= Len(all_flags_and_cuts)
    /\ \E item \in {all_flags_and_cuts[item_idx]} :
         /\ item.sig_data.files # {} \/ item.bg_data.files # {}
         /\ plotted' = Append(plotted,
              IF args.data /\ args.ratio
              THEN [item |-> item_idx, datamc |-> TRUE,
                    current_data_data |-> CurrentDataData(item),
                    blind_data |-> BlindData(item),
                    data_hist |-> DataHistogram(BlindData(item), CurrentDataData(item))]
              ELSE [item |-> item_idx, datamc |-> FALSE,
                    current_data_data |-> NoRegionMap,
                    blind_data |-> FALSE,
                    data_hist |-> FALSE])
    /\ item_idx' = item_idx + 1
    /\ UNCHANGED <<mainFixed, prompt_result, pc, loaded, all_flags_and_cuts>>

FinishMain ==
    /\ mode = "main" /\ pc = "items"
    /\ item_idx > Len(all_flags_and_cuts)
    /\ pc' = "done"
    /\ UNCHANGED <<mainFixed, prompt_result, loaded, all_flags_and_cuts, item_idx, plotted>>

MainNext == CheckUnblind \/ LoadMaps \/ AddEventFlags \/ AddCustomCuts \/ SkipItem \/ PlotItem \/ FinishMain

SpecMain == MainInit /\ [][MainNext]_vars

\* The items of the custom-cut regions, in list order
CustomItems == SelectSeq(all_flags_and_cuts, LAMBDA item : item.data_source = "custom_cut")

\* C13: every custom-cut region handed to the plotting code is named CustomRegion<i>
\* for its position i in the custom-cut list, carries the i-th expression as its
\* original cut and the signal and background maps the loader stored under that
\* key; the data/MC plot of the region uses the data map stored under the same key;
\* no position of the list is left without its item.
CustomRegionsKeepTheirCuts ==
    mode = "main" =>
      /\ pc \in {"items", "done"} =>
           /\ Len(CustomItems) = Len(MainCustomCuts)
           /\ \A i \in 1..Len(CustomItems) :
                /\ CustomItems[i].name = <<"CustomRegion", i>>
                /\ CustomItems[i].original_cut = MainCustomCuts[i]
                /\ CustomItems[i].sig_data.sample = "signal"
                /\ CustomItems[i].sig_data.region = <<"CustomRegion", i>>
                /\ CustomItems[i].bg_data.sample = "background"
                /\ CustomItems[i].bg_data.region = <<"CustomRegion", i>>
      /\ \A p \in 1..Len(plotted) :
           (plotted[p].datamc /\ all_flags_and_cuts[plotted[p].item].data_source = "custom_cut")
             => /\ plotted[p].current_data_data.sample = "data"
                /\ plotted[p].current_data_data.region = all_flags_and_cuts[plotted[p].item].name

WitnessCustomRegionsKept ==
    /\ mode = "main" /\ pc = "done"
    /\ args.flags = <<CutHadronic, ArgSignalRegion, CutPhotons>>
    /\ Len(plotted) = 3
    /\ plotted[3].datamc
    /\ all_flags_and_cuts[3].name = <<"CustomRegion", 2>>
    /\ all_flags_and_cuts[3].original_cut = CutPhotons
    /\ plotted[3].current_data_data = RegionMap("data", <<"CustomRegion", 2>>, {"file.root"})
    /\ all_flags_and_cuts[2].original_cut = CutHadronic

\* Is the region of a plotted item blinded: --unblind is not set, and its name
\* contains SR or it is a custom-cut region.
Blinded(item) ==
    ~args.unblind /\ (is_signal_region(item.name) \/ item.data_source = "custom_cut")

MainLoading == mode = "main" /\ (pc \in {"load", "items", "done"} \/ loaded # EmptyDict
                                 \/ plotted # <<>>)

\* C26: a data histogram is made for a region only if the region is not blinded,
\* the plotting code being told that a region is blinded exactly when --unblind is
\* not set and the region is a signal region or a custom-cut region; and a run
\* with --unblind and data files loads and plots only after the prompt returned
\* True.
DataShownOnlyWhereNotBlinded ==
    mode = "main" =>
      /\ \A p \in 1..Len(plotted) :
           /\ plotted[p].datamc
                => plotted[p].blind_data = Blinded(all_flags_and_cuts[plotted[p].item])
           /\ plotted[p].data_hist => ~Blinded(all_flags_and_cuts[plotted[p].item])
      /\ (MainLoading /\ args.unblind /\ args.data) => prompt_result = Returned(TRUE)
      /\ (MainLoading /\ ~(args.unblind /\ args.data)) => prompt_result = NotAsked

\* A run without --unblind that plots a signal region, a control region and a
\* custom-cut region, all with data: only the control region gets a data histogram.
WitnessBlindedRegions ==
    /\ mode = "main" /\ pc = "done"
    /\ ~args.unblind /\ args.data /\ args.ratio
    /\ args.flags = <<ArgSignalRegion, ArgControlRegion, CutPhotons>>
    /\ Len(plotted) = 3
    /\ \A p \in 1..3 : plotted[p].datamc /\ plotted[p].current_data_data.files # {}
    /\ ~plotted[1].data_hist /\ plotted[2].data_hist /\ ~plotted[3].data_hist

(***************************************************************************)
(* Pooling the per-file sets of one region                                 *)
(* (DataLoader.combine_data, PlotterDataMC._combine_data_collections)      *)
(***************************************************************************)

MaxPooled == 3

\* The files whose sets are pooled; every row passes all selections, one file
\* lacks a variable's column.
PooledFileChoices ==
    { Table(AllColumns, <<RowGoodOne>>, {}),
      Table(AllColumns, <<RowGoodTwo>>, {}),
      Table(AllColumns, <<RowNoObject, RowGoodOne>>, {}),
      Table(AllColumns \ {"HadronicSV_mass"}, <<RowGoodTwo, RowGoodTwo>>, {}) }

\* The ObservationSet a load call stores for a file
StoredSetOf(producer, table) ==
    IF producer = "load_data"
    THEN LoadDataContribution(table, [i \in 1..Len(table.rows) |-> TRUE]).d
    ELSE RegionContribution(table, [i \in 1..Len(table.rows) |-> TRUE], FALSE).d

PooledKeys == { VarKey("rjr_Ms"), VarKey("rjr_Rs"), DefaultWeightsKey }

\* np.concatenate([d[key] for d in data_dict.values()]), last file first
RECURSIVE ConcatenateReversed(_, _)
ConcatenateReversed(dd, key) ==
    IF dd = <<>> THEN <<>>
    ELSE ConcatenateReversed(Tail(dd), key) \o Head(dd).value[key]

\* np.concatenate([d[key] for d in data_dict.values()])
RECURSIVE Concatenate(_, _)
Concatenate(dd, key) ==
    IF dd = <<>> THEN <<>>
    ELSE Head(dd).value[key] \o Concatenate(Tail(dd), key)

\* d[key] raises KeyError when a set lacks the key
combine_data(dd) ==
    IF dd = <<>> THEN Call(FALSE, NoneValue)
    ELSE IF \E i \in 1..Len(dd) : ~(PooledKeys \subseteq DOMAIN dd[i].value)
    THEN Call(TRUE, NoneValue)
    ELSE Call(FALSE, Some([key \in PooledKeys |-> Concatenate(dd, key)]))

\* for file_data in ...: for key, values in file_data.items():
\*     if key in combined_data: combined_data[key].extend(values)
RECURSIVE ExtendFrom(_, _)
ExtendFrom(combined_data, dd) ==
    IF dd = <<>> THEN combined_data
    ELSE ExtendFrom([key \in DOMAIN combined_data |->
                        IF key \in DOMAIN Head(dd).value
                        THEN combined_data[key] \o Head(dd).value[key]
                        ELSE combined_data[key]],
                    Tail(dd))

combine_data_collections(data_collection) ==
    IF data_collection = <<>> THEN Call(FALSE, NoneValue)
    ELSE Call(FALSE, Some(ExtendFrom([key \in DOMAIN data_collection[1].value |-> <<>>],
                                     data_collection)))

CombineInit ==
    /\ mode = "combine"
    /\ pc = "call"
    /\ combine_fn \in {"combine_data", "_combine_data_collections"}
    /\ \E producer \in {"load_data_unified", "load_data"}, n \in 0..MaxPooled :
         \E tables \in [1..n -> PooledFileChoices] :
           data_dict = [j \in 1..n |-> [key |-> <<"file", j>>,
                                        value |-> StoredSetOf(producer, tables[j])]]
    /\ combined = Call(FALSE, NoneValue)
    /\ data = NoData
    /\ mask = <<>>
    /\ ExtractIdle /\ MaskIdle /\ ParseIdle /\ LoaderIdle /\ MainIdle /\ LaterIdle

combineFixed == <<mode, data, mask, extractVars, maskVars, parseVars, loaderVars, mainVars,
                  laterVars,
                  combine_fn, data_dict>>

CallCombineData ==
    /\ mode = "combine" /\ pc = "call"
    /\ combine_fn = "combine_data"
    /\ combined' = combine_data(data_dict)
    /\ pc' = "done"
    /\ UNCHANGED combineFixed

CallCombineDataCollections ==
    /\ mode = "combine" /\ pc = "call"
    /\ combine_fn = "_combine_data_collections"
    /\ combined' = combine_data_collections(data_dict)
    /\ pc' = "done"
    /\ UNCHANGED combineFixed

CombineNext == CallCombineData \/ CallCombineDataCollections

SpecCombine == CombineInit /\ [][CombineNext]_vars

\* The sets of the region's files, in file iteration order
PooledSets == [j \in 1..Len(data_dict) |-> data_dict[j].value]

\* C14: combining a region result without contributing files raises an error to
\* the caller instead of returning a value.
CombineOfNothingRaises ==
    (mode = "combine" /\ pc = "done" /\ data_dict = <<>>) => combined.raised

\* The keys of the per-file sets
KeysOfSets == UNION { DOMAIN PooledSets[j] : j \in 1..Len(PooledSets) }

\* The arrays of one key, file after file
RECURSIVE InFileOrder(_, _, _)
InFileOrder(sets, key, j) ==
    IF j > Len(sets) THEN <<>>
    ELSE (IF key \in DOMAIN sets[j] THEN sets[j][key] ELSE <<>>) \o InFileOrder(sets, key, j + 1)

\* C15: the pooled set holds, for every key of the per-file sets (values, per-variable
\* weights and default weights), the arrays of the files one after the other in file
\* order.
PooledSetHoldsEveryKey ==
    (mode = "combine" /\ pc = "done" /\ data_dict # <<>>) =>
      /\ ~combined.raised /\ ~combined.value.none
      /\ \A key \in KeysOfSets :
           /\ key \in DOMAIN combined.value.d
           /\ combined.value.d[key] = InFileOrder(PooledSets, key, 1)

\* The function that was called, applied to another argument
CombineAgain(dd) ==
    IF combine_fn = "combine_data" THEN combine_data(dd) ELSE combine_data_collections(dd)

\* C16: for at least two files, every pooled key's array is the array pooled from all
\* files but the last, followed by the last file's array of that key; the pooled keys
\* are the same.
PoolingIsAssociative ==
    (mode = "combine" /\ pc = "done" /\ Len(data_dict) >= 2) =>
      Bind(CombineAgain(SubSeq(data_dict, 1, Len(data_dict) - 1)), LAMBDA front :
        /\ ~combined.raised /\ ~front.raised
        /\ DOMAIN combined.value.d = DOMAIN front.value.d
        /\ \A key \in DOMAIN combined.value.d :
             combined.value.d[key]
               = front.value.d[key]
                 \o (IF key \in DOMAIN data_dict[Len(data_dict)].value
                     THEN data_dict[Len(data_dict)].value[key] ELSE <<>>))

WitnessPoolingThree ==
    /\ mode = "combine" /\ pc = "done"
    /\ combine_fn = "combine_data"
    /\ Len(data_dict) = 3
    /\ data_dict[1].value # data_dict[2].value
    /\ data_dict[2].value # data_dict[3].value
    /\ Len(data_dict[3].value[VarKey("rjr_Ms")]) = 2
    /\ Len(combined.value.d[VarKey("rjr_Ms")]) = 4
    /\ combined.value.d[VarKey("rjr_Ms")]
         # ConcatenateReversed(data_dict, VarKey("rjr_Ms"))

(***************************************************************************)
(* The rows behind the stored arrays (checked under SpecColumns)           *)
(***************************************************************************)

\* The table with row i alone
OnlyRow(table, i) == [table EXCEPT !.rows = << table.rows[i] >>]

\* Row i of the file is selected by the region: its flag is set, or the
\* expression holds for the row taken alone.
RowInRegion(table, r, i) ==
    IF r.kind = "flag" THEN table.rows[i][event_flags[r.index]] = 1
    ELSE ParseSimpleCut(custom_cuts[r.index], CutBindings(OnlyRow(table, i))).mask[1]

\* Rows of the file that pass the baseline cuts, the region and the row guard
RowsPassingAll(path, r) ==
    Bind(TableOf(path), LAMBDA table :
      { i \in 1..Len(table.rows) :
           /\ PassesBaselineCuts(table, i)
           /\ RowInRegion(table, r, i)
           /\ RowQualifies(table.rows[i]) })

\* The values a row holds for a variable, scaled as they are stored
RowValues(table, i, var_key) ==
    IF var_key \notin table.cols THEN <<>>
    ELSE IF var_key \in {"rjr_Ms", "rjr_Rs"}
    THEN << table.rows[i][var_key][1] * ScaleMilli(var_key) >>
    ELSE IF IsPerObject(var_key)
    THEN [j \in 1..Len(table.rows[i][var_key]) |-> table.rows[i][var_key][j] * ScaleMilli(var_key)]
    ELSE IF ~IsVector(var_key) THEN << table.rows[i][var_key] * ScaleMilli(var_key) >>
    ELSE <<>>

\* The values of the chosen rows, in row order, from row i on
RECURSIVE ValuesOfRows(_, _, _, _)
ValuesOfRows(table, chosen, var_key, i) ==
    IF i > Len(table.rows) THEN <<>>
    ELSE (IF i \in chosen THEN RowValues(table, i, var_key) ELSE <<>>)
         \o ValuesOfRows(table, chosen, var_key, i + 1)

StoredVariables(fd) == { k \in 1..Len(VariableKeys) : VarKey(VariableKeys[k]) \in DOMAIN fd }

\* C17: every variable array stored for a region and a file holds exactly the values
\* of the file's rows that pass the baseline cuts, the region's mask and the row
\* guard, in row order; a row failing any of the three contributes to no variable,
\* per-object variables included.
OnlyPassingRowsContribute ==
    (mode = "load" /\ pc # "call") =>
      \A k \in 1..Len(Regions) : \A path \in DOMAIN RegionMapOf(Regions[k]) :
         \E fd \in {RegionMapOf(Regions[k])[path]}, table \in {TableOf(path)},
            rows \in {RowsPassingAll(path, Regions[k])} :
           \A v \in StoredVariables(fd) :
              fd[VarKey(VariableKeys[v])] = ValuesOfRows(table, rows, VariableKeys[v], 1)

WitnessPassingRows ==
    /\ mode = "load" /\ pc = "done"
    /\ entry = "load_data_unified"
    /\ file_paths = <<"good.root", "noflag.root">>
    /\ event_flags = <<EventFlagB, EventFlagA>>
    /\ custom_cuts = <<CutMalformed, CutPhotons>>
    /\ DOMAIN event_data[EventFlagB] = {"good.root"}
    /\ event_data[EventFlagB]["good.root"][VarKey("rjr_Ms")] = <<2000>>
    /\ Len(event_data[EventFlagA]["noflag.root"][VarKey("rjr_Ms")]) = 2
    /\ Len(event_data[EventFlagA]["noflag.root"][VarKey("HadronicSV_mass")]) = 3
    /\ Len(custom_data[<<"CustomRegion", 2>>]["noflag.root"][VarKey("rjr_Ms")]) = 1

(***************************************************************************)
(* Which (region, file) pairs have an entry (checked under Spec)           *)
(***************************************************************************)

\* A pair the call processes: the file is read and the region exists in it.
PairProcessed(path, r) == ~FileFails(path) /\ ~RegionSkipped(path, r)

NthRow(chosen, j) == CHOOSE i \in chosen : Cardinality({ x \in chosen : x < i }) = j - 1

\* The weight the running call gives every observation of a row
LoadedRowWeight(table, i) ==
    IF is_data THEN 1 ELSE table.rows[i]["evtFillWgt"] * Luminosity

\* C19: in every stored set, rjr_Ms, rjr_Rs, selCMet (when present) and the default
\* weights have one entry per contributing row; entry j is element [0] of the j-th
\* contributing row's rjr_Ms and rjr_Rs, that row's selCMet and that row's weight;
\* and the default weights are the rjr_Ms weights.
OneValueAndWeightPerRow ==
    (mode = "load" /\ pc # "call") =>
      \A k \in 1..Len(Regions) : \A path \in DOMAIN RegionMapOf(Regions[k]) :
        \E fd \in {RegionMapOf(Regions[k])[path]}, table \in {TableOf(path)},
           rows \in {RowsPassingAll(path, Regions[k])} :
          /\ Len(fd[VarKey("rjr_Ms")]) = Cardinality(rows)
          /\ Len(fd[VarKey("rjr_Rs")]) = Cardinality(rows)
          /\ Len(fd[DefaultWeightsKey]) = Cardinality(rows)
          /\ VarKey("selCMet") \in DOMAIN fd => Len(fd[VarKey("selCMet")]) = Cardinality(rows)
          /\ WeightsKey("rjr_Ms") \in DOMAIN fd => fd[DefaultWeightsKey] = fd[WeightsKey("rjr_Ms")]
          /\ \A j \in 1..Cardinality(rows) :
               \E i \in {NthRow(rows, j)} :
                 /\ fd[VarKey("rjr_Ms")][j] = table.rows[i]["rjr_Ms"][1] * ScaleMilli("rjr_Ms")
                 /\ fd[VarKey("rjr_Rs")][j] = table.rows[i]["rjr_Rs"][1] * ScaleMilli("rjr_Rs")
                 /\ fd[DefaultWeightsKey][j] = LoadedRowWeight(table, i)
                 /\ VarKey("selCMet") \in DOMAIN fd =>
                      fd[VarKey("selCMet")][j] = table.rows[i]["selCMet"] * ScaleMilli("selCMet")

WitnessOneValuePerRow ==
    /\ LoadDone /\ entry = "load_data_unified" /\ ~is_data
    /\ file_paths = <<"good.root">>
    /\ event_flags = <<EventFlagA>>
    /\ Len(FileAt("good.root").table.rows[3]["rjr_Ms"]) = 2
    /\ RowsPassingAll("good.root", Regions[1]) = {1, 3}
    /\ Len(event_data[EventFlagA]["good.root"][VarKey("rjr_Ms")]) = 2
    /\ Len(event_data[EventFlagA]["good.root"][VarKey("selCMet")]) = 2
    /\ event_data[EventFlagA]["good.root"][DefaultWeightsKey][1]
         # event_data[EventFlagA]["good.root"][DefaultWeightsKey][2]

(***************************************************************************)
(* Files without the trigger-OR column (checked under SpecColumns)         *)
(***************************************************************************)

TriggerColumnsOf(path) ==
    { TriggerBranches[k] : k \in 1..Len(TriggerBranches) } \cap FileAt(path).table.cols

\* The condition that stands for hlt_flags in a file without that column: some
\* per-trigger column of the file is set, or nothing when the file has none.
RowTriggered(path, i) ==
    TriggerColumnsOf(path) = {}
      \/ \E branch \in TriggerColumnsOf(path) : FileAt(path).table.rows[i][branch] = 1

\* Rows of a file without hlt_flags that pass the baseline cuts with the trigger
\* condition in its place, the flag and the guard
RowsPassingWithTriggers(path, flag) ==
    { i \in 1..Len(FileAt(path).table.rows) :
         /\ PassesBaselineCuts(AvailableTable(path), i)
         /\ RowTriggered(path, i)
         /\ FileAt(path).table.rows[i][flag] = 1
         /\ RowQualifies(FileAt(path).table.rows[i]) }

\* C20: for a file without the hlt_flags column, either entry point stores for every
\* flag of the file the rows that pass the baseline cuts with the OR of the file's
\* per-trigger columns in the place of hlt_flags (no condition when the file has none
\* of them), so the file is still loaded.
TriggerFallbackInBothEntryPoints ==
    LoadDone =>
      \A path \in PathsGiven :
        (FileAt(path).status = "ok" /\ "hlt_flags" \notin FileAt(path).table.cols) =>
          \A k \in 1..Len(event_flags) :
            event_flags[k] \in FileAt(path).table.cols =>
              \E rows \in {RowsPassingWithTriggers(path, event_flags[k])} :
                /\ path \in DOMAIN event_data[event_flags[k]] <=> rows # {}
                /\ path \in DOMAIN event_data[event_flags[k]] =>
                     event_data[event_flags[k]][path][VarKey("rjr_Ms")]
                       = ValuesOfRows(FileAt(path).table, rows, "rjr_Ms", 1)

(***************************************************************************)
(* Files that lack a requested column other than evtFillWgt                *)
(* (checked under SpecColumns)                                             *)
(***************************************************************************)

RequestedBranches ==
    IF entry = "load_data" THEN LoadDataBranches(event_flags) ELSE Branches(event_flags)

\* Row i passes every baseline condition whose column the table has.
PassesAvailableBaseline(table, i) ==
    /\ "selCMet" \in table.cols => table.rows[i]["selCMet"] > MET_CUT
    /\ table.rows[i]["evtFillWgt"] < EVT_WGT_CUT
    /\ \A k \in 1..Len(SelectionManagerFlags) :
          SelectionManagerFlags[k] \in table.cols => table.rows[i][SelectionManagerFlags[k]] = 1

\* C21: a file that has evtFillWgt but lacks another requested column is not
\* aborted: every requested flag whose column the file has, and for which a row
\* passes the conditions computable from the columns present and the guard, has an
\* entry for the file.
MissingColumnsNeverAbortTheFile ==
    LoadDone =>
      \A path \in PathsGiven :
        (/\ FileAt(path).status = "ok"
         /\ FileAt(path).table.nonnumeric = {}
         /\ "evtFillWgt" \in FileAt(path).table.cols
         /\ {"rjr_Ms", "rjr_Rs", "rjrPTS"} \subseteq FileAt(path).table.cols
         /\ ~(RequestedBranches \subseteq FileAt(path).table.cols)) =>
           \A flag \in FlagsGiven \cap FileAt(path).table.cols :
             (\E i \in 1..Len(FileAt(path).table.rows) :
                 /\ PassesAvailableBaseline(FileAt(path).table, i)
                 /\ FileAt(path).table.rows[i][flag] = 1
                 /\ RowQualifies(FileAt(path).table.rows[i]))
               => path \in DOMAIN event_data[flag]

(***************************************************************************)
(* File handles (checked under Spec)                                       *)
(***************************************************************************)

\* C22: at every point of a load at most one file is open, and it is the file being
\* processed; between two files, and when the call has returned, no file is open,
\* whether the previous file ended normally, lacked the tree or raised.
AtMostOneFileOpen ==
    mode = "load" =>
      /\ Cardinality(open_files) <= 1
      /\ open_files \subseteq {fidx}
      /\ pc \in {"call", "files", "done"} => open_files = {}

\* The third file is open after a file without the tree and a file that raised
\* while it was open.
WitnessThirdFileOpen ==
    /\ mode = "load" /\ pc = "read"
    /\ Len(file_paths) >= 2
    /\ FileAt(file_paths[1]).status \in {"no_tree", "read_error"}
    /\ fidx = 2
    /\ open_files = {2}

(***************************************************************************)
(* The DataLoader object and its loading summary                           *)
(* (DataLoader.__init__, DataLoader._track_loading)                        *)
(***************************************************************************)

MaxCalls == 2

\* Parameters SelectionManager.__init__ takes besides self
SelectionManagerParameters == 0

\* Python raises TypeError when a call passes more positional arguments than the
\* function has parameters.
CallAccepted(parameters, given) == given <= parameters

EmptySummary ==
    [data_types_loaded |-> {}, event_flags |-> {}, custom_cuts |-> {}, files_processed |-> 0]

\* DataLoader.__init__: self.selection_manager = SelectionManager(exclude_bh_filter)
\* passes one argument; the attributes are assigned when that call returns.
NewDataLoader ==
    IF CallAccepted(SelectionManagerParameters, 1)
    THEN Call(FALSE, [constructed |-> TRUE, flags |-> SelectionManagerFlags,
                      loading_summary |-> EmptySummary])
    ELSE Call(TRUE, NoLoader)

SetOf(xs) == { xs[k] : k \in 1..Len(xs) }

\* Mutant of TrackLoading: the file count is assigned, not added.
TrackLoadingAssignsCount(summary, flags, cuts, isData, file_count) ==
    [data_types_loaded |-> summary.data_types_loaded \cup {IF isData THEN "Data" ELSE "MC"},
     event_flags |-> summary.event_flags \cup SetOf(flags),
     custom_cuts |-> summary.custom_cuts \cup SetOf(cuts),
     files_processed |-> file_count]

\* _track_loading; an absent argument (None) and an empty list add nothing.
TrackLoading(summary, flags, cuts, isData, file_count) ==
    [data_types_loaded |-> summary.data_types_loaded \cup {IF isData THEN "Data" ELSE "MC"},
     event_flags |-> IF flags # <<>> THEN summary.event_flags \cup SetOf(flags)
                     ELSE summary.event_flags,
     custom_cuts |-> IF cuts # <<>> THEN summary.custom_cuts \cup SetOf(cuts)
                     ELSE summary.custom_cuts,
     files_processed |-> summary.files_processed + file_count]

\* Arguments of the load calls
SummaryPathChoices == { <<>>, <<"good.root">>, <<"missing.root", "good.root">> }
SummaryFlagChoices == { <<>>, <<EventFlagA>>, <<EventFlagB, EventFlagA>> }
SummaryCutChoices == { <<>>, <<CutPhotons, CutHadronic>> }

\* Either a DataLoader is about to be constructed, or the object exists with the
\* attributes lines 8-16 of __init__ assign (the object the methods are called on).
SummaryInit ==
    /\ mode = "summary"
    /\ pc \in {"new", "ready"}
    /\ loader = IF pc = "new" THEN NoLoader
                ELSE [constructed |-> TRUE, flags |-> SelectionManagerFlags,
                      loading_summary |-> EmptySummary]
    /\ calls = <<>>
    /\ data = NoData
    /\ mask = <<>>
    /\ ExtractIdle /\ MaskIdle /\ ParseIdle /\ LoaderIdle /\ MainIdle /\ CombineIdle
    /\ LabelIdle /\ PromptIdle /\ EpsIdle

summaryFixed == <<mode, data, mask, extractVars, maskVars, parseVars, loaderVars, mainVars,
                  combineVars, labelVars, promptVars, epsVars>>

\* loader = DataLoader(args.tree, luminosity=args.lumi)
ConstructLoader ==
    /\ mode = "summary" /\ pc = "new"
    /\ \E made \in {NewDataLoader} :
         /\ loader' = made.value
         /\ pc' = IF made.raised THEN "raised" ELSE "ready"
    /\ UNCHANGED <<summaryFixed, calls>>

\* loader.load_data(file_paths, final_state_flags)
CallLoadData ==
    /\ mode = "summary" /\ pc = "ready" /\ Len(calls) < MaxCalls
    /\ \E paths \in SummaryPathChoices, flags \in SummaryFlagChoices :
         /\ loader' = [loader EXCEPT !.loading_summary =
                          TrackLoading(@, flags, <<>>, FALSE, Len(paths))]
         /\ calls' = Append(calls, [entry |-> "load_data", file_paths |-> paths,
                                    event_flags |-> flags, custom_cuts |-> <<>>,
                                    is_data |-> FALSE])
    /\ UNCHANGED <<summaryFixed, pc>>

\* loader.load_data_unified(file_paths, event_flags, custom_cuts, is_data)
CallLoadDataUnified ==
    /\ mode = "summary" /\ pc = "ready" /\ Len(calls) < MaxCalls
    /\ \E paths \in SummaryPathChoices, flags \in SummaryFlagChoices,
          cuts \in SummaryCutChoices, isData \in BOOLEAN :
         /\ loader' = [loader EXCEPT !.loading_summary =
                          TrackLoading(@, flags, cuts, isData, Len(paths))]
         /\ calls' = Append(calls, [entry |-> "load_data_unified", file_paths |-> paths,
                                    event_flags |-> flags, custom_cuts |-> cuts,
                                    is_data |-> isData])
    /\ UNCHANGED <<summaryFixed, pc>>

SummaryNext == ConstructLoader \/ CallLoadData \/ CallLoadDataUnified

SpecSummary == SummaryInit /\ [][SummaryNext]_vars

RECURSIVE PathsHandedTo(_)
PathsHandedTo(cs) ==
    IF cs = <<>> THEN 0 ELSE Len(Head(cs).file_paths) + PathsHandedTo(Tail(cs))

CallKind(call) == IF call.is_data THEN "Data" ELSE "MC"

ConstructionSucceeds ==
    (mode = "summary" /\ calls = <<>> /\ pc # "new") =>
      /\ pc = "ready"
      /\ loader.constructed
      /\ loader.flags = <<"hlt_flags", "Flag_MetFilters">>
      /\ loader.loading_summary = EmptySummary

----------------------------------------------------------------------------
(* Specification SpecLabel: FinalStateResolver.format_sv_label              *)
(* (src/src/selections.py) on the flag names pass<final state>Selection     *)
(* <region><tightness>.  The name is a sequence of characters; the label is *)
(* the sequence of the pieces the f-string puts together.                   *)
(***************************************************************************)

\* `t in s` of Python strings
Contains(s, t) == \E i \in 1..Len(s) : StartsAt(s, i, t)

\* re.search(r'<prefix>(\d+)', s): group 1 of the leftmost match, <<>> for no match
RECURSIVE SearchDigitsAfter(_, _, _)
SearchDigitsAfter(s, prefix, i) ==
    IF i > Len(s) THEN <<>>
    ELSE IF StartsAt(s, i, prefix) /\ SpanEnd(s, i + Len(prefix), Digits) > i + Len(prefix)
         THEN SubSeq(s, i + Len(prefix), SpanEnd(s, i + Len(prefix), Digits) - 1)
         ELSE SearchDigitsAfter(s, prefix, i + 1)

sNHad == <<"N", "H", "a", "d">>
sNLep == <<"N", "L", "e", "p">>
sHadGe2 == <<"H", "a", "d", "G", "e", "2">>
sLepGe2 == <<"L", "e", "p", "G", "e", "2">>
sHadAndLep == <<"H", "a", "d", "A", "n", "d", "L", "e", "p">>
sLepAndHad == <<"L", "e", "p", "A", "n", "d", "H", "a", "d">>
sCR == <<"C", "R">>
sSR == <<"S", "R">>
sLoose == <<"L", "o", "o", "s", "e">>
sTight == <<"T", "i", "g", "h", "t">>
sPass == <<"p", "a", "s", "s">>
sSelection == <<"S", "e", "l", "e", "c", "t", "i", "o", "n">>

\* lines 34-43 and 69-78: the selection part of the label
SelectionOf(name) ==
    IF Contains(name, sCR)
    THEN (IF Contains(name, sLoose) THEN "CR,L" ELSE "CR,T")
    ELSE IF Contains(name, sSR)
         THEN (IF Contains(name, sLoose) THEN "SR,L" ELSE "SR,T")
         ELSE "SR,T"

\* lines 48-55 and 59-66: the count prefix of a pure final state
CountOf(name, ge2, prefix) ==
    IF Contains(name, ge2) THEN "2"
    ELSE Bind(SearchDigitsAfter(name, prefix, 1),
              LAMBDA digits :
                 IF digits # <<>> /\ DigitsValue(digits) >= 2 THEN "2" ELSE "")

\* f"{count}SV_{{{flavor}}}^{{{selection}}}"
PureLabel(count, flavor, selection) ==
    (IF count = "" THEN <<>> ELSE <<count>>) \o <<"SV_{", flavor, "}^{", selection, "}">>

\* f"SV_{{\ell\ell}}SV_{{hh}}^{{{selection}}}"
MixedLabel(selection) ==
    <<"SV_{", "\\ell\\ell", "}", "SV_{", "hh", "}^{", selection, "}">>

format_sv_label(name) ==
    IF Contains(name, sHadAndLep) \/ Contains(name, sLepAndHad)
    THEN MixedLabel(SelectionOf(name))
    ELSE IF Contains(name, sNHad)
         THEN PureLabel(CountOf(name, sHadGe2, sNHad), "hh", SelectionOf(name))
         ELSE IF Contains(name, sNLep)
              THEN PureLabel(CountOf(name, sLepGe2, sNLep), "\\ell\\ell", SelectionOf(name))
              ELSE PureLabel("", "hh", SelectionOf(name))

\* The final states of the flag names: what the name says, and how it is written.
FinalState(flavor, count, text) == [flavor |-> flavor, count |-> count, text |-> text]
FinalStateChoices ==
    { FinalState("hadronic", 1, sNHad \o <<"1">>),
      FinalState("hadronic", 2, sNHad \o <<"2">>),
      FinalState("hadronic", 3, sNHad \o <<"3">>),
      FinalState("hadronic", 10, sNHad \o <<"1", "0">>),
      FinalState("hadronic", 2, <<"N">> \o sHadGe2),
      FinalState("leptonic", 1, sNLep \o <<"1">>),
      FinalState("leptonic", 2, sNLep \o <<"2">>),
      FinalState("leptonic", 12, sNLep \o <<"1", "2">>),
      FinalState("leptonic", 2, <<"N">> \o sLepGe2),
      FinalState("mixed", 2, sNLep \o sNHad),
      FinalState("mixed", 2, sNHad \o sNLep),
      FinalState("mixed", 2, sNLep \o <<"1">> \o sNHad \o <<"1">>),
      FinalState("mixed", 2, <<"N">> \o sHadAndLep),
      FinalState("mixed", 2, <<"N">> \o sLepAndHad) }
RegionChoices == { sCR, sSR }
TightnessChoices == { sLoose, sTight }

\* pass<final state>Selection<region><tightness>
FlagName(fs, region, tightness) == sPass \o fs.text \o sSelection \o region \o tightness

LabelInit ==
    /\ mode = "label"
    /\ pc = "call"
    /\ \E fs \in FinalStateChoices, region \in RegionChoices, tightness \in TightnessChoices :
         final_state = [flavor |-> fs.flavor, count |-> fs.count,
                        region |-> region, tightness |-> tightness,
                        name |-> FlagName(fs, region, tightness)]
    /\ label = <<>>
    /\ data = NoData
    /\ mask = <<>>
    /\ ExtractIdle /\ MaskIdle /\ ParseIdle /\ LoaderIdle /\ MainIdle /\ CombineIdle
    /\ SummaryIdle /\ PromptIdle /\ EpsIdle

labelFixed == <<mode, data, mask, extractVars, maskVars, parseVars, loaderVars, mainVars,
                combineVars, summaryVars, promptVars, epsVars>>

\* resolver.format_sv_label(flag)
FormatLabel ==
    /\ mode = "label" /\ pc = "call"
    /\ label' = format_sv_label(final_state.name)
    /\ pc' = "done"
    /\ UNCHANGED <<labelFixed, final_state>>

LabelNext == FormatLabel

SpecLabel == LabelInit /\ [][LabelNext]_vars

\* The label the documented convention gives to what the flag name says.
ConventionSelection(fs) ==
    IF fs.region = sCR
    THEN (IF fs.tightness = sLoose THEN "CR,L" ELSE "CR,T")
    ELSE (IF fs.tightness = sLoose THEN "SR,L" ELSE "SR,T")

ConventionLabel(fs) ==
    IF fs.flavor = "mixed"
    THEN <<"SV_{", "\\ell\\ell", "}", "SV_{", "hh", "}^{", ConventionSelection(fs), "}">>
    ELSE (IF fs.count >= 2 THEN <<"2">> ELSE <<>>)
         \o <<"SV_{", IF fs.flavor = "hadronic" THEN "hh" ELSE "\\ell\\ell", "}^{",
              ConventionSelection(fs), "}">>

\* C24: format_sv_label gives every flag name the label of the documented
\* convention: the mixed label when the name names both leptonic and hadronic SVs,
\* else the pure label with prefix 2 exactly for a count of 2 or more, with the
\* selection of the CR/SR and Loose/Tight parts of the name.
LabelFollowsConvention ==
    (mode = "label" /\ pc = "done") => label = ConventionLabel(final_state)

\* The same, for the names that do not name both kinds of SV (holds).
PureLabelFollowsConvention ==
    (mode = "label" /\ pc = "done" /\ final_state.flavor # "mixed")
       => label = ConventionLabel(final_state)

----------------------------------------------------------------------------
(* File paths given more than once (checked under Spec) *)

\* The entries of a per-file map in the order the dictionary keeps them: the
\* order in which the paths were first met.
EntriesInOrder(region_map_of_region, value_of(_)) ==
    Bind(Filter(FirstOccurrences(file_paths), LAMBDA path : path \in DOMAIN region_map_of_region),
         LAMBDA stored : [j \in 1..Len(stored) |-> [key |-> stored[j],
                                                    value |-> value_of(stored[j])]])

\* C28: a per-region map of load_data_unified has one entry per distinct path
\* stored, also for a path given several times: the entry holds what one pass over
\* the file contributes to the region, once, and so does the set pooled from the
\* map.
OneEntryPerDistinctPath ==
    (LoadDone /\ entry = "load_data_unified") =>
      \A k \in 1..Len(Regions) :
        \E per_file \in {RegionMapOf(Regions[k])} :
          /\ DOMAIN per_file \subseteq PathsGiven
          /\ \A path \in DOMAIN per_file :
                \E own \in {PairAlone(path, Regions[k])} :
                   /\ own.stored
                   /\ per_file[path] = own.d
          /\ combine_data(EntriesInOrder(per_file, LAMBDA path : per_file[path]))
               = combine_data(EntriesInOrder(per_file,
                                             LAMBDA path : PairAlone(path, Regions[k]).d))

\* A file given twice, stored once with the values of its passing rows.
WitnessPathGivenTwice ==
    /\ LoadDone /\ entry = "load_data_unified"
    /\ file_paths = <<"good.root", "good.root">>
    /\ event_flags = <<EventFlagA>>
    /\ DOMAIN event_data[EventFlagA] = {"good.root"}
    /\ event_data[EventFlagA]["good.root"] = PairAlone("good.root", Regions[1]).d
    /\ Len(event_data[EventFlagA]["good.root"][VarKey("rjr_Ms")]) >= 1
    /\ ~combine_data(EntriesInOrder(event_data[EventFlagA],
                                    LAMBDA path : event_data[EventFlagA][path])).raised

----------------------------------------------------------------------------
(* Custom cuts on a column the file lacks (checked under SpecColumns) *)

\* What the expressions say: the column compared, and whether the comparison
\* holds for the value 0.
CutMeaning(cut) ==
    CASE cut = CutPhotons -> [column |-> "nSelPhotons", at_zero |-> FALSE]
      [] cut = CutNoPhotons -> [column |-> "nSelPhotons", at_zero |-> TRUE]
      [] cut = CutHadronic -> [column |-> "SV_nHadronic", at_zero |-> FALSE]
      [] cut = CutNoHadronic -> [column |-> "SV_nHadronic", at_zero |-> TRUE]
      [] OTHER -> [column |-> "", at_zero |-> FALSE]

CutOnMissingColumn(path, i) ==
    /\ CutMeaning(custom_cuts[i]).column # ""
    /\ CutMeaning(custom_cuts[i]).column \notin FileAt(path).table.cols

\* C29: when a file lacks the column a custom cut compares, the evaluation does
\* not fail: the mask is the comparison with 0 in every row, and the region holds
\* for the file what the rows passing the baseline cuts contribute when the
\* comparison holds for 0, and nothing when it does not.
MissingCutColumnReadsAsZero ==
    (LoadDone /\ entry = "load_data_unified") =>
      \A path \in PathsGiven : ~FileFails(path) =>
        \A i \in 1..Len(custom_cuts) : CutOnMissingColumn(path, i) =>
          \E table \in {TableOf(path)}, at_zero \in {CutMeaning(custom_cuts[i]).at_zero},
             base_mask \in {BaseMaskOf(path).value} :
            /\ ~CutFails(path, i)
            /\ ParseSimpleCut(custom_cuts[i], CutBindings(table)).mask
                 = [r \in 1..Len(table.rows) |-> at_zero]
            /\ ~ExtractionRaisedUpTo(path, Len(event_flags) + i) =>
                 \E expected \in {RegionContribution(table,
                                      [r \in 1..Len(table.rows) |-> base_mask[r] /\ at_zero],
                                      is_data)} :
                    /\ (path \in DOMAIN custom_data[CustomRegionName(i)]) <=> expected.stored
                    /\ expected.stored => custom_data[CustomRegionName(i)][path] = expected.d

\* A file without the two counting columns: both expressions hold for 0 and select
\* the two rows that pass the baseline cuts.
WitnessCutOnMissingColumn ==
    /\ LoadDone /\ entry = "load_data_unified"
    /\ file_paths = <<"nocounts.root", "good.root">>
    /\ custom_cuts = <<CutNoPhotons, CutNoHadronic>>
    /\ "nocounts.root" \in DOMAIN custom_data[CustomRegionName(1)]
    /\ "nocounts.root" \in DOMAIN custom_data[CustomRegionName(2)]
    /\ Len(custom_data[CustomRegionName(1)]["nocounts.root"][VarKey("rjr_Ms")]) = 2
    /\ Len(custom_data[CustomRegionName(2)]["nocounts.root"][VarKey("rjr_Ms")]) = 2

----------------------------------------------------------------------------
(* Specification SpecEps: main of src/tools/eps_to_pdf.py converting at most *)
(* MaxEps files with a pool of at most MaxWorkers worker processes.  The    *)
(* workers take the files in list order and finish in any order; the loop   *)
(* of main records the results in the order the workers finish.             *)
(***************************************************************************)
MaxEps == 3
MaxWorkers == 2

EpsPaths == <<"a.eps", "b.eps", "c.eps", "d.eps", "e.eps">>

\* subprocess.run(["epstopdf", eps_path], check=True): FileNotFoundError when the
\* program cannot be started, CalledProcessError on a non-zero exit status.
RunEpstopdf(file, installed) ==
    IF ~installed THEN "FileNotFoundError"
    ELSE IF file.exit_status # 0 THEN "CalledProcessError"
    ELSE "completed"

\* convert_single_file(eps_path): only CalledProcessError is caught.
convert_single_file(file, installed) ==
    Bind(RunEpstopdf(file, installed),
         LAMBDA run :
            IF run = "completed" THEN Call(FALSE, [success |-> TRUE, path |-> file.path])
            ELSE IF run = "CalledProcessError"
                 THEN Call(FALSE, [success |-> FALSE, path |-> file.path])
                 ELSE Call(TRUE, [success |-> FALSE, path |-> file.path]))

EpsInit ==
    /\ mode = "eps"
    /\ pc = "found"
    /\ \E n \in 0..MaxEps : \E status \in [1..n -> {0, 1}] :
         eps_files = [i \in 1..n |-> [path |-> EpsPaths[i], exit_status |-> status[i]]]
    /\ epstopdf \in BOOLEAN
    /\ num_workers \in 1..MaxWorkers
    /\ task = [i \in 1..Len(eps_files) |-> "queued"]
    /\ worker_calls = [i \in 1..Len(eps_files) |-> 0]
    /\ results = <<>>
    /\ success_count = 0
    /\ fail_list = <<>>
    /\ data = NoData
    /\ mask = <<>>
    /\ ExtractIdle /\ MaskIdle /\ ParseIdle /\ LoaderIdle /\ MainIdle /\ CombineIdle
    /\ SummaryIdle /\ LabelIdle /\ PromptIdle

epsFixed == <<mode, data, mask, extractVars, maskVars, parseVars, loaderVars, mainVars,
              combineVars, summaryVars, labelVars, promptVars, eps_files, epstopdf,
              num_workers>>

\* if not eps_files: sys.exit(0); else the pool is started
StartPool ==
    /\ mode = "eps" /\ pc = "found"
    /\ pc' = IF eps_files = <<>> THEN "exited" ELSE "pool"
    /\ UNCHANGED <<epsFixed, task, worker_calls, results, success_count, fail_list>>

Running == { i \in 1..Len(eps_files) : task[i] = "running" }
Queued == { i \in 1..Len(eps_files) : task[i] = "queued" }

\* A free worker takes the next file of the list and calls convert_single_file.
TakeTask ==
    /\ mode = "eps" /\ pc = "pool"
    /\ Cardinality(Running) < num_workers
    /\ Queued # {}
    /\ \E i \in Queued :
         /\ \A j \in Queued : i <= j
         /\ task' = [task EXCEPT ![i] = "running"]
         /\ worker_calls' = [worker_calls EXCEPT ![i] = @ + 1]
    /\ UNCHANGED <<epsFixed, pc, results, success_count, fail_list>>

\* A worker's call ends; the pool holds its result (or its exception) for the loop.
FinishTask ==
    /\ mode = "eps" /\ pc = "pool"
    /\ \E i \in Running :
         /\ task' = [task EXCEPT ![i] = "finished"]
         /\ results' = Append(results, convert_single_file(eps_files[i], epstopdf))
    /\ UNCHANGED <<epsFixed, pc, worker_calls, success_count, fail_list>>

\* One pass of `for success, path in pool.imap_unordered(...)`: the next result is
\* counted; a worker's exception is raised again in main, which leaves the loop
\* and the pool.
RecordResult ==
    /\ mode = "eps" /\ pc = "pool"
    /\ results # <<>>
    /\ \E result \in {Head(results)} :
         IF result.raised
         THEN /\ pc' = "raised"
              /\ UNCHANGED <<success_count, fail_list>>
         ELSE IF result.value.success
         THEN /\ success_count' = success_count + 1
              /\ UNCHANGED <<pc, fail_list>>
         ELSE /\ fail_list' = Append(fail_list, result.value.path)
              /\ UNCHANGED <<pc, success_count>>
    /\ results' = Tail(results)
    /\ UNCHANGED <<epsFixed, task, worker_calls>>

\* The iterator is exhausted: every task finished and every result was taken.
FinishEps ==
    /\ mode = "eps" /\ pc = "pool"
    /\ \A i \in 1..Len(eps_files) : task[i] = "finished"
    /\ results = <<>>
    /\ pc' = "done"
    /\ UNCHANGED <<epsFixed, task, worker_calls, results, success_count, fail_list>>

EpsNext == StartPool \/ TakeTask \/ FinishTask \/ RecordResult \/ FinishEps

SpecEps == EpsInit /\ [][EpsNext]_vars

Converting == { i \in 1..Len(eps_files) : eps_files[i].exit_status = 0 }
FailListPaths == { fail_list[k] : k \in 1..Len(fail_list) }

\* Every file is handed to at most one worker call, and at the end each file was
\* recorded once: the converted ones counted, the others listed once each.
RecordedOnce ==
    /\ \A i \in 1..Len(eps_files) : worker_calls[i] <= 1
    /\ pc = "done" =>
         /\ \A i \in 1..Len(eps_files) : worker_calls[i] = 1
         /\ success_count = Cardinality(Converting)
         /\ Len(fail_list) = Cardinality(FailListPaths)
         /\ FailListPaths = { eps_files[i].path : i \in 1..Len(eps_files) \ Converting }
         /\ success_count + Len(fail_list) = Len(eps_files)

\* C30: every file found is converted by exactly one worker call, which returns
\* (True, path) or (False, path); in whatever order the workers finish the run
\* ends with every file recorded exactly once, success_count + len(fail_list)
\* being the number of files found.
EveryFileRecordedOnce ==
    mode = "eps" =>
      /\ RecordedOnce
      /\ \A k \in 1..Len(results) : ~results[k].raised
      /\ pc # "raised"

\* The same when the epstopdf program can be started (holds).
RecordedOnceWhenInstalled ==
    (mode = "eps" /\ epstopdf) =>
      /\ RecordedOnce
      /\ \A k \in 1..Len(results) : ~results[k].raised
      /\ pc # "raised"

====
